---- MODULE Spec2Model ----
(***************************************************************************)
(* Model of the chunking and compositing utilities of data_cube_utilities  *)
(* (src/dc_utilities.py): split_task, chunks, generate_time_ranges, the    *)
(* time-slice reducers fill_nodata, max_value and min_value, the           *)
(* time-series analyses and create_cfmask_clean_mask; of DataAccessApi     *)
(* (src/data_access_api.py); of EVI, EVI2 and compute_ndvi_anomaly         *)
(* (src/data_cube_utilities/dc_ndvi_anomaly.py); and of                    *)
(* xarray_time_series_plot and skip_plot                                   *)
(* (src/data_cube_utilities/plotter_utils.py).                             *)
(*                                                                         *)
(* Python floats are IEEE-754 binary64.  A float is modelled by its exact  *)
(* value: a sign and a magnitude, the magnitude an unsigned fixed-point    *)
(* number with FracBits binary places held in NumLimbs limbs of LimbBits   *)
(* bits, least significant limb first.  Every arithmetic operation is the  *)
(* exact operation followed by rounding to MantBits significant bits,      *)
(* ties to even, as the hardware does.  All values that occur (zero, or of *)
(* magnitude between 2^(MantBits-1-FracBits) and 2^(NumLimbs*LimbBits -    *)
(* FracBits)) are exact in this encoding.                                  *)
(***************************************************************************)
EXTENDS Integers, Sequences, FiniteSets, TLC

\* ------------------------------------------------------------------------
\* Unsigned multi-limb integers.  The operations are functions, so that an
\* argument is a value when the operation starts.
\* ------------------------------------------------------------------------

LimbBits == 15
Base == 2^LimbBits
NumLimbs == 8
FracLimbs == 5
FracBits == FracLimbs * LimbBits
MantBits == 53

Limbs == 1..NumLimbs
Big == [Limbs -> 0..(Base - 1)]
Shifts == 0..(NumLimbs * LimbBits + FracBits)

Limb(a, i) == IF i \in Limbs THEN a[i] ELSE 0

BigZero == [i \in Limbs |-> 0]

\* n in 0..2^31-1
BigOfNat[n \in Nat] ==
    [i \in Limbs |-> IF i = 1 THEN n % Base
                     ELSE IF i = 2 THEN (n \div Base) % Base
                     ELSE IF i = 3 THEN n \div (Base * Base)
                     ELSE 0]

BigIsZero(a) == \A i \in Limbs : a[i] = 0

\* -1, 0 or 1 as a < b, a = b, a > b: decided by the highest differing limb
BigCmp[a \in Big, b \in Big] ==
    LET differ == {i \in Limbs : a[i] # b[i]} IN
    IF differ = {} THEN 0
    ELSE IF \E i \in differ : a[i] > b[i] /\ \A j \in differ : j <= i
    THEN 1 ELSE -1

\* a + b: a carry enters limb i when a lower limb overflows and every limb
\* between passes the carry on
BigAdd[a \in Big, b \in Big] ==
    LET carry(i) == IF \E j \in 1..(i - 1) :
                          /\ a[j] + b[j] >= Base
                          /\ \A k \in (j + 1)..(i - 1) : a[k] + b[k] = Base - 1
                    THEN 1 ELSE 0
    IN [i \in Limbs |-> (a[i] + b[i] + carry(i)) % Base]

\* a - b for a >= b
BigSub[a \in Big, b \in Big] ==
    LET borrow(i) == IF \E j \in 1..(i - 1) :
                           /\ a[j] < b[j]
                           /\ \A k \in (j + 1)..(i - 1) : a[k] = b[k]
                     THEN 1 ELSE 0
    IN [i \in Limbs |-> (a[i] - b[i] - borrow(i) + Base) % Base]

\* 2 * a + bit for bit in {0, 1}
BigDouble[a \in Big, bit \in {0, 1}] ==
    [i \in Limbs |-> ((2 * a[i]) % Base)
                     + (IF i = 1 THEN bit ELSE (2 * a[i - 1]) \div Base)]

\* the carry of a * k into limb i
MulCarry[a \in Big, k \in 0..(Base - 1), i \in Limbs] ==
    IF i = 1 THEN 0 ELSE (a[i - 1] * k + MulCarry[a, k, i - 1]) \div Base

\* a * k for 0 <= k < Base
BigMulSmall[a \in Big, k \in 0..(Base - 1)] ==
    [i \in Limbs |-> (a[i] * k + MulCarry[a, k, i]) % Base]

\* a * 2^n
BigShl[a \in Big, n \in Shifts] ==
    [i \in Limbs |->
        ((Limb(a, i - (n \div LimbBits)) * 2^(n % LimbBits)) % Base)
        + (Limb(a, i - (n \div LimbBits) - 1) \div 2^(LimbBits - (n % LimbBits)))]

\* floor(a / 2^n)
BigShr[a \in Big, n \in Shifts] ==
    [i \in Limbs |->
        (Limb(a, i + (n \div LimbBits)) \div 2^(n % LimbBits))
        + ((Limb(a, i + (n \div LimbBits) + 1) % 2^(n % LimbBits))
           * 2^(LimbBits - (n % LimbBits)))]

\* number of significant bits of a limb
NatBitLen[n \in 0..(Base - 1)] ==
    CHOOSE k \in 0..LimbBits : n < 2^k /\ (k = 0 \/ 2^(k - 1) <= n)

\* number of significant bits of a (0 for zero)
BigBitLen[a \in Big] ==
    IF BigIsZero(a) THEN 0
    ELSE LET top == CHOOSE i \in Limbs :
                        a[i] # 0 /\ \A j \in (i + 1)..NumLimbs : a[j] = 0
         IN (top - 1) * LimbBits + NatBitLen[a[top]]

\* bit j of a, j = 0 the least significant
BigBit(a, j) == (a[(j \div LimbBits) + 1] \div 2^(j % LimbBits)) % 2

\* ------------------------------------------------------------------------
\* binary64 rounding and arithmetic
\* ------------------------------------------------------------------------

\* q * 2^sh, or (q + 1) * 2^sh when the bits cut off (rem of them explicit,
\* more below when sticky) are above half of 2^sh, or half of it and q odd
RoundUp[q \in Big, rem \in Big, sh \in Shifts, sticky \in BOOLEAN] ==
    LET c == BigCmp[rem, BigShl[BigOfNat[1], sh - 1]] IN
    IF c > 0 \/ (c = 0 /\ (sticky \/ q[1] % 2 = 1))
    THEN BigShl[BigAdd[q, BigOfNat[1]], sh]
    ELSE BigShl[q, sh]

\* m with the bits below bit sh cut off, rounded
RoundAt[m \in Big, q \in Big, sh \in Shifts, sticky \in BOOLEAN] ==
    RoundUp[q, BigSub[m, BigShl[q, sh]], sh, sticky]

\* The magnitude m (a truncated exact result; sticky says that nonzero bits
\* were cut off below it) rounded to MantBits significant bits, ties to even.
RoundMag[m \in Big, sticky \in BOOLEAN] ==
    IF BigBitLen[m] <= MantBits THEN m
    ELSE RoundAt[m, BigShr[m, BigBitLen[m] - MantBits],
                 BigBitLen[m] - MantBits, sticky]

Floats == [neg : BOOLEAN, mag : Big]

Float(neg, mag) == [neg |-> neg /\ ~BigIsZero(mag), mag |-> mag]

FZero == Float(FALSE, BigZero)

\* float(n) for a Python int n of small magnitude
FOfInt[n \in Int] ==
    [neg |-> n < 0, mag |-> BigShl[BigOfNat[IF n < 0 THEN -n ELSE n], FracBits]]

FNeg(x) == Float(~x.neg, x.mag)

FMake[neg \in BOOLEAN, mag \in Big] == Float(neg, mag)

\* x + y
FAdd[x \in Floats, y \in Floats] ==
    IF x.neg = y.neg
    THEN FMake[x.neg, RoundMag[BigAdd[x.mag, y.mag], FALSE]]
    ELSE IF BigCmp[x.mag, y.mag] >= 0
         THEN FMake[x.neg, RoundMag[BigSub[x.mag, y.mag], FALSE]]
         ELSE FMake[y.neg, RoundMag[BigSub[y.mag, x.mag], FALSE]]

\* x - y
FSub[x \in Floats, y \in Floats] == FAdd[x, FNeg(y)]

\* k * x for a Python int k with |k| < Base
FMulInt[k \in Int, x \in Floats] ==
    FMake[(k < 0) # x.neg,
          RoundMag[BigMulSmall[x.mag, IF k < 0 THEN -k ELSE k], FALSE]]

\* the significant bits of a float's magnitude m as an integer, and the
\* number of zero bits below them: m = Significand[m] * 2^Exponent[m]
Exponent[m \in Big] ==
    IF BigBitLen[m] > MantBits THEN BigBitLen[m] - MantBits ELSE 0

Significand[m \in Big] == BigShr[m, Exponent[m]]

\* a times the limbs of b from limb i on, for a * b < Base^NumLimbs
BigMulFrom[a \in Big, b \in Big, i \in 1..(NumLimbs + 1)] ==
    IF i > NumLimbs THEN BigZero
    ELSE BigAdd[BigShl[BigMulSmall[a, b[i]], (i - 1) * LimbBits],
                BigMulFrom[a, b, i + 1]]

\* the magnitude p * 2^(e - FracBits)
Placed[p \in Big, e \in Shifts] ==
    IF e >= FracBits THEN BigShl[p, e - FracBits] ELSE BigShr[p, FracBits - e]

\* x * y
FMul[x \in Floats, y \in Floats] ==
    FMake[x.neg # y.neg,
          Placed[RoundMag[BigMulFrom[Significand[x.mag], Significand[y.mag], 1],
                          FALSE],
                 Exponent[x.mag] + Exponent[y.mag]]]

\* Long division of the dividend n * 2^FracBits by d, one quotient bit per
\* step: j is the index of the next bit of the dividend, q and r the quotient
\* and remainder so far.
DivState == [n : Big, d : Big, j : -1..(NumLimbs * LimbBits + FracBits),
             q : Big, r : Big]

DivNext[s \in DivState, r2 \in Big] ==
    IF BigCmp[r2, s.d] >= 0
    THEN [n |-> s.n, d |-> s.d, j |-> s.j - 1,
          q |-> BigDouble[s.q, 1], r |-> BigSub[r2, s.d]]
    ELSE [n |-> s.n, d |-> s.d, j |-> s.j - 1,
          q |-> BigDouble[s.q, 0], r |-> r2]

DivBit(s) ==
    DivNext[s, BigDouble[s.r, IF s.j >= FracBits
                              THEN BigBit(s.n, s.j - FracBits) ELSE 0]]

\* k steps
DivBits[s \in DivState, k \in 0..LimbBits] ==
    IF k = 0 THEN s ELSE DivBits[DivBit(s), k - 1]

\* the steps still to do: until the dividend is used up or the quotient has
\* MantBits + 2 bits.  The bits of the quotient below those decide the
\* rounding only by whether any of them is set.
DivLeft(s) ==
    IF s.j + 1 < MantBits + 2 - BigBitLen[s.q] THEN s.j + 1
    ELSE MantBits + 2 - BigBitLen[s.q]

\* all steps, a limb's worth at a time
DivLoop[s \in DivState] ==
    IF DivLeft(s) <= 0 THEN s
    ELSE DivLoop[DivBits[s, IF DivLeft(s) < LimbBits THEN DivLeft(s)
                            ELSE LimbBits]]

\* the quotient of a finished division, rounded: the dividend's bits not
\* used and the remainder are what was cut off
DivRound[x \in Floats, y \in Floats, end \in DivState] ==
    FMake[x.neg # y.neg,
          RoundMag[BigShl[end.q, end.j + 1],
                   \/ ~BigIsZero(end.r)
                   \/ /\ end.j >= FracBits
                      /\ x.mag # BigShl[BigShr[x.mag, end.j - FracBits + 1],
                                        end.j - FracBits + 1]]]

\* the division's start: the leading k0 bits of the dividend (one fewer than
\* the divisor has) give no quotient bit and start the remainder
DivStart[x \in Floats, y \in Floats, bn \in Shifts, k0 \in Shifts] ==
    [n |-> x.mag, d |-> y.mag, j |-> bn + FracBits - k0 - 1, q |-> BigZero,
     r |-> IF bn >= k0 THEN BigShr[x.mag, bn - k0]
           ELSE BigShl[x.mag, k0 - bn]]

\* x / y for y # 0
FDiv[x \in Floats, y \in Floats] ==
    DivRound[x, y,
        DivLoop[DivStart[x, y, BigBitLen[x.mag],
                    IF BigBitLen[y.mag] - 1 < BigBitLen[x.mag] + FracBits
                    THEN BigBitLen[y.mag] - 1
                    ELSE BigBitLen[x.mag] + FracBits]]]

\* -1, 0 or 1 as x < y, x = y, x > y
FCmp[x \in Floats, y \in Floats] ==
    IF x.neg # y.neg THEN (IF x.neg THEN -1 ELSE 1)
    ELSE IF x.neg THEN BigCmp[y.mag, x.mag]
    ELSE BigCmp[x.mag, y.mag]

\* the integer part of a magnitude, for magnitudes below 2^30
MagFloor(m) == Limb(m, FracLimbs + 1) + Base * Limb(m, FracLimbs + 2)

MagHasFraction(m) == \E i \in 1..FracLimbs : m[i] # 0

\* math.ceil(x), a Python int
FCeil[x \in Floats] ==
    IF x.neg THEN -MagFloor(x.mag)
    ELSE MagFloor(x.mag) + (IF MagHasFraction(x.mag) THEN 1 ELSE 0)

\* ------------------------------------------------------------------------
\* split_task
\* ------------------------------------------------------------------------

\* Python's None; an optional int x is <<x>>, a (lower, upper) tuple <<l, u>>
None == <<>>

\* the default of split_task's resolution parameter, 0.000269 as a binary64:
\* 4962174155827869 * 2^-64
DefaultResolution ==
    Float(FALSE, BigShl[[i \in Limbs |-> IF i <= 4
                                          THEN <<10909, 26558, 1096, 141>>[i]
                                          ELSE 0],
                        FracBits - 64])

\* math.ceil(a / b) for Python ints a >= 0, b > 0 of small magnitude: the
\* float quotient is the correctly rounded a / b, which is an integer when
\* a / b is one and otherwise stays strictly between the same two integers.
CeilDiv(a, b) == (a + b - 1) \div b

\* sorted(l): position i holds the value v with fewer than i entries below
\* it and at least i entries not above it
Sorted(l) ==
    [i \in 1..Len(l) |->
        CHOOSE v \in {l[j] : j \in 1..Len(l)} :
            /\ Cardinality({j \in 1..Len(l) : l[j] < v}) < i
            /\ i <= Cardinality({j \in 1..Len(l) : l[j] <= v})]

\* list(reversed(l))
Reversed(l) == [i \in 1..Len(l) |-> l[Len(l) + 1 - i]]

\* chunks without its last, shorter slice
chunks_full_only(l, n) ==
    [k \in 1..(Len(l) \div n) |-> SubSeq(l, (k - 1) * n + 1, k * n)]

\* list(chunks(l, n)) for n > 0: the slices l[i:i + n], i = 0, n, 2n, ...
chunks(l, n) ==
    [k \in 1..CeilDiv(Len(l), n) |->
        SubSeq(l, (k - 1) * n + 1,
               IF k * n < Len(l) THEN k * n ELSE Len(l))]

Raised(exc) ==
    [raised |-> exc, lat_ranges |-> <<>>, lon_ranges |-> <<>>,
     time_ranges |-> <<>>]

\* The loop of split_task over the latitude chunks: lat_ranges, pairs of
\* floats.  The loop runs math.ceil((latitude[1] - latitude[0]) /
\* lat_range_size) times.
LatRanges[res \in Floats, lat \in Int \X Int, geographic_chunks \in Int, lat_range_size \in Floats] ==
    [k \in 1..FCeil[FDiv[FOfInt[lat[2] - lat[1]], lat_range_size]] |->
        <<FAdd[FOfInt[lat[1]], FMulInt[k - 1, lat_range_size]],
          IF k - 1 # geographic_chunks - 1
          THEN FSub[FAdd[FOfInt[lat[1]], FMulInt[k, lat_range_size]], res]
          ELSE FAdd[FOfInt[lat[1]], FMulInt[k, lat_range_size]]>>]

\* lon_ranges: the longitude tuple as it was given, once per lat range
LonRanges[lat_ranges \in Seq(Floats \X Floats), lon \in Int \X Int] ==
    <<lat_ranges, [k \in 1..Len(lat_ranges) |-> lon]>>

\* GeoRanges with the number of chunks rounded down
GeoRanges_floor(res, lat, lon, gcs) ==
    LET square_area == (lon[2] - lon[1]) * (lat[2] - lat[1])
        geographic_chunks == square_area \div gcs[1]
    IN IF gcs # None /\ square_area > gcs[1]
       THEN LonRanges[LatRanges[res, lat, geographic_chunks,
                                FDiv[FOfInt[lat[2] - lat[1]],
                                     FOfInt[geographic_chunks]]],
                      lon]
       ELSE << <<(<<FOfInt[lat[1]], FOfInt[lat[2]]>>)>>, <<lon>> >>

\* The geographic part of split_task, for latitude and longitude not None:
\* <<lat_ranges, lon_ranges>>
GeoRanges(res, lat, lon, gcs) ==
    LET square_area == (lon[2] - lon[1]) * (lat[2] - lat[1])
        geographic_chunks == CeilDiv(square_area, gcs[1])
    IN IF gcs # None /\ square_area > gcs[1]
       THEN LonRanges[LatRanges[res, lat, geographic_chunks,
                                FDiv[FOfInt[lat[2] - lat[1]],
                                     FOfInt[geographic_chunks]]],
                      lon]
       ELSE << <<(<<FOfInt[lat[1]], FOfInt[lat[2]]>>)>>, <<lon>> >>

\* The time part of split_task: time_ranges, or the exception raised
TimeRanges(acq, tc, rev) ==
    LET acquisitions_sorted == Sorted(acq)
        ordered == IF rev THEN Reversed(acquisitions_sorted)
                   ELSE acquisitions_sorted
    IN IF tc = None THEN [raised |-> "no", time_ranges |-> <<ordered>>]
       ELSE IF tc[1] = 0
       THEN [raised |-> "ZeroDivisionError", time_ranges |-> <<>>]
       ELSE LET time_chunk_size == CeilDiv(Len(acquisitions_sorted), tc[1])
            IN IF time_chunk_size = 0
               THEN [raised |-> "ValueError", time_ranges |-> <<>>]
               ELSE [raised |-> "no",
                     time_ranges |-> chunks(ordered, time_chunk_size)]

\* split_task(resolution, latitude, longitude, acquisitions, geo_chunk_size,
\* time_chunks, reverse_time): what it returns, or the exception it raises.
\* Its first statement subscripts longitude and latitude.
split_task(res, lat, lon, acq, gcs, tc, rev) ==
    IF lon = None \/ lat = None THEN Raised("TypeError")
    ELSE LET geo == GeoRanges(res, lat, lon, gcs)
             time == TimeRanges(acq, tc, rev)
         IN IF time.raised # "no" THEN Raised(time.raised)
            ELSE [raised |-> "no", lat_ranges |-> geo[1],
                  lon_ranges |-> geo[2], time_ranges |-> time.time_ranges]

\* ------------------------------------------------------------------------
\* The time-slice reducers fill_nodata, max_value and min_value
\* ------------------------------------------------------------------------

\* the nodata value of fill_nodata
NoData == -9999

\* A dataset is the list of its data variables in the order of data_vars,
\* each a name and the values of its pixels.
Pixels == {1, 2}
Values == {NoData, 1, 2}
VarNames == {"ndvi", "red"}
VarOrders == {<<"ndvi", "red">>, <<"red", "ndvi">>}

DataVars == [name : VarNames, values : [Pixels -> Values]]

\* the values the bands of the input slices take
BandValues == [ndvi |-> Values, red |-> {NoData, 1}]

DatasetsOf(order) ==
    {[i \in 1..Len(order) |-> [name |-> order[i], values |-> f[i]]] :
        f \in {g \in [1..Len(order) -> [Pixels -> Values]] :
                 \A i \in 1..Len(order) : \A p \in Pixels :
                     g[i][p] \in BandValues[order[i]]}}

Datasets == UNION {DatasetsOf(order) : order \in VarOrders}

\* list(ds.data_vars)
data_vars(ds) == [i \in 1..Len(ds) |-> ds[i].name]

\* ds[key].values
Var(ds, key) ==
    ds[CHOOSE i \in 1..Len(ds) : ds[i].name = key].values

\* ds after ds[key].values[mask] = src[key].values[mask]
Assign[ds \in Seq(DataVars), key \in VarNames, mask \in SUBSET Pixels, src \in Seq(DataVars)] ==
    [i \in 1..Len(ds) |->
        IF ds[i].name = key
        THEN [name |-> key,
              values |-> [p \in Pixels |-> IF p \in mask THEN Var(src, key)[p]
                                           ELSE ds[i].values[p]]]
        ELSE ds[i]]

\* dataset_out[key].values == -9999
NoDataMask(dataset_out, key) ==
    {p \in Pixels : Var(dataset_out, key)[p] = NoData}

\* dataset.ndvi.values > dataset_out.ndvi.values
GreaterMask(dataset, dataset_out) ==
    {p \in Pixels : Var(dataset, "ndvi")[p] > Var(dataset_out, "ndvi")[p]}

\* dataset.ndvi.values < dataset_out.ndvi.values
LessMask(dataset, dataset_out) ==
    {p \in Pixels : Var(dataset, "ndvi")[p] < Var(dataset_out, "ndvi")[p]}

\* the loops over list(dataset_out.data_vars): keys are those still to do.
\* Each pass computes its mask from dataset_out as the passes before left it.
FillLoop[dataset \in Seq(DataVars), dataset_out \in Seq(DataVars), keys \in Seq(VarNames)] ==
    IF keys = <<>> THEN dataset_out
    ELSE FillLoop[dataset,
                  Assign[dataset_out, Head(keys),
                         NoDataMask(dataset_out, Head(keys)), dataset],
                  Tail(keys)]

MaxLoop[dataset \in Seq(DataVars), dataset_out \in Seq(DataVars), keys \in Seq(VarNames)] ==
    IF keys = <<>> THEN dataset_out
    ELSE MaxLoop[dataset,
                 Assign[dataset_out, Head(keys),
                        GreaterMask(dataset, dataset_out), dataset],
                 Tail(keys)]

MinLoop[dataset \in Seq(DataVars), dataset_out \in Seq(DataVars), keys \in Seq(VarNames)] ==
    IF keys = <<>> THEN dataset_out
    ELSE MinLoop[dataset,
                 Assign[dataset_out, Head(keys),
                        LessMask(dataset, dataset_out), dataset],
                 Tail(keys)]

\* fill_nodata with the two datasets in each other's place
fill_nodata_swapped(dataset, dataset_intermediate) ==
    IF dataset_intermediate = None THEN dataset
    ELSE FillLoop[dataset_intermediate, dataset, data_vars(dataset)]

\* fill_nodata masking every data variable by the nodata pixels of ndvi
fill_nodata_ndvi_mask(dataset, dataset_intermediate) ==
    IF dataset_intermediate = None THEN dataset
    ELSE [i \in 1..Len(dataset_intermediate) |->
            [name |-> dataset_intermediate[i].name,
             values |->
                [p \in Pixels |->
                    IF Var(dataset_intermediate, "ndvi")[p] = NoData
                    THEN Var(dataset, dataset_intermediate[i].name)[p]
                    ELSE dataset_intermediate[i].values[p]]]]

\* fill_nodata(dataset, dataset_intermediate)
fill_nodata(dataset, dataset_intermediate) ==
    IF dataset_intermediate = None THEN dataset
    ELSE FillLoop[dataset, dataset_intermediate,
                  data_vars(dataset_intermediate)]

\* max_value comparing the other way
max_value_less(dataset, dataset_intermediate) ==
    IF dataset_intermediate = None THEN dataset
    ELSE MinLoop[dataset, dataset_intermediate,
                 data_vars(dataset_intermediate)]

\* max_value(dataset, dataset_intermediate)
max_value(dataset, dataset_intermediate) ==
    IF dataset_intermediate = None THEN dataset
    ELSE MaxLoop[dataset, dataset_intermediate,
                 data_vars(dataset_intermediate)]

\* min_value(dataset, dataset_intermediate)
min_value(dataset, dataset_intermediate) ==
    IF dataset_intermediate = None THEN dataset
    ELSE MinLoop[dataset, dataset_intermediate,
                 data_vars(dataset_intermediate)]

\* ------------------------------------------------------------------------
\* addition
\* ------------------------------------------------------------------------

\* numpy's nan and infinities, beside the finite Floats
NaN == [neg |-> FALSE, mag |-> <<>>]
Inf(neg) == [neg |-> neg, mag |-> <<1>>]

\* x / y for numpy floats x, y (finite, y not negative zero)
NpDiv[x \in Floats, y \in Floats] ==
    IF BigIsZero(y.mag)
    THEN IF BigIsZero(x.mag) THEN NaN ELSE Inf(x.neg)
    ELSE FDiv[x, y]

\* values[np.isnan(values)] = 0
NanToZero(values) ==
    [p \in DOMAIN values |-> IF values[p] = NaN THEN FZero ELSE values[p]]

NpFloats == Floats \cup {NaN, Inf(FALSE), Inf(TRUE)}

\* the datasets of per-chunk totals
TotalsDatasets ==
    [total_data : Seq(Floats), total_clean : Seq(Floats),
     normalized_data : Seq(NpFloats)]

\* a dataset of per-chunk totals: the variables addition reads and writes
Totals(total_data, total_clean, normalized_data) ==
    [total_data |-> total_data, total_clean |-> total_clean,
     normalized_data |-> normalized_data]

\* the pixelwise float sums a + b and quotients a / b
PixelSum[a \in Seq(Floats), b \in Seq(Floats)] ==
    [p \in DOMAIN a |-> FAdd[a[p], b[p]]]

PixelQuotient[a \in Seq(Floats), b \in Seq(Floats)] ==
    [p \in DOMAIN a |-> NpDiv[a[p], b[p]]]

\* dataset_out once total_data and total_clean hold the sums
Renormalized[total_data \in Seq(Floats), total_clean \in Seq(Floats)] ==
    Totals(total_data, total_clean,
           NanToZero(PixelQuotient[total_data, total_clean]))

\* addition leaving the nan of 0 / 0 in normalized_data
addition_keeps_nan(dataset, dataset_intermediate) ==
    IF dataset_intermediate = None THEN dataset
    ELSE LET out == Renormalized[PixelSum[dataset_intermediate.total_data,
                                          dataset.total_data],
                                 PixelSum[dataset_intermediate.total_clean,
                                          dataset.total_clean]]
         IN Totals(out.total_data, out.total_clean,
                   PixelQuotient[out.total_data, out.total_clean])

\* addition(dataset, dataset_intermediate)
addition(dataset, dataset_intermediate) ==
    IF dataset_intermediate = None THEN dataset
    ELSE Renormalized[PixelSum[dataset_intermediate.total_data,
                               dataset.total_data],
                      PixelSum[dataset_intermediate.total_clean,
                               dataset.total_clean]]

\* ------------------------------------------------------------------------
\* perform_timeseries_analysis and perform_timeseries_analysis_iterative
\* ------------------------------------------------------------------------

\* A time series dataset is the list of its data variables, the values of
\* each the list over time of the float values of the pixels.

\* processed_data: the data with the values equal to no_data set to 0
ProcessedData(data, no_data) ==
    [t \in DOMAIN data |->
        [p \in DOMAIN data[t] |->
            IF data[t][p] = FOfInt[no_data] THEN FZero ELSE data[t][p]]]

\* clean_data: 1 where the data differs from no_data, 0 where it equals it
CleanData(data, no_data) ==
    [t \in DOMAIN data |->
        [p \in DOMAIN data[t] |->
            IF data[t][p] # FOfInt[no_data] THEN FOfInt[1] ELSE FZero]]

\* data.sum('time') of one or more time slices: the float sum of the
\* slices in the order of time
SumTime[data \in Seq(Seq(Floats))] ==
    IF Len(data) = 1 THEN data[1]
    ELSE PixelSum[SumTime[SubSeq(data, 1, Len(data) - 1)], data[Len(data)]]

\* the dataset of the sums and their quotient, nan where the count is 0
Normalized[total_data \in Seq(Floats), total_clean \in Seq(Floats)] ==
    Totals(total_data, total_clean, PixelQuotient[total_data, total_clean])

\* perform_timeseries_analysis(dataset_in, no_data)
perform_timeseries_analysis(dataset_in, no_data) ==
    LET data == Var(dataset_in, data_vars(dataset_in)[1])
    IN Normalized[SumTime[ProcessedData(data, no_data)],
                  SumTime[CleanData(data, no_data)]]

\* perform_timeseries_analysis_iterative forgetting the intermediate product
perform_timeseries_analysis_iterative_restarts(dataset_in, intermediate_product, no_data) ==
    LET data == Var(dataset_in, data_vars(dataset_in)[1])
    IN Renormalized[SumTime[ProcessedData(data, no_data)],
                    SumTime[CleanData(data, no_data)]]

\* perform_timeseries_analysis_iterative(dataset_in, intermediate_product,
\* no_data)
perform_timeseries_analysis_iterative(dataset_in, intermediate_product, no_data) ==
    LET data == Var(dataset_in, data_vars(dataset_in)[1])
    IN IF intermediate_product = None
       THEN Renormalized[SumTime[ProcessedData(data, no_data)],
                         SumTime[CleanData(data, no_data)]]
       ELSE Renormalized[PixelSum[intermediate_product.total_data,
                                  SumTime[ProcessedData(data, no_data)]],
                         PixelSum[intermediate_product.total_clean,
                                  SumTime[CleanData(data, no_data)]]]

\* ------------------------------------------------------------------------
\* create_cfmask_clean_mask
\* ------------------------------------------------------------------------

\* An array of two dimensions is the list of its rows.

\* values.shape
Shape(values) == <<Len(values), Len(values[1])>>

\* values.reshape(-1): the rows one after the other
RECURSIVE Flat(_)
Flat(values) ==
    IF values = <<>> THEN <<>> ELSE Head(values) \o Flat(Tail(values))

\* np.in1d(ar1, ar2, invert=True): for each element of ar1, that it is
\* none of ar2
In1dInverted(ar1, ar2) ==
    [i \in DOMAIN ar1 |-> ~(\E j \in DOMAIN ar2 : ar2[j] = ar1[i])]

\* np.reshape(flat, shape)
Reshape(flat, shape) ==
    [r \in 1..shape[1] |-> [c \in 1..shape[2] |-> flat[(r - 1) * shape[2] + c]]]

\* the cfmask values masked out beside no_data: cloud shadow, snow, cloud
\* and fill
MaskedValues == <<2, 3, 4, 255>>

\* create_cfmask_clean_mask masking the default no_data, whatever is passed
create_cfmask_clean_mask_default(cfmask, no_data) ==
    Reshape(In1dInverted(Flat(cfmask), Append(MaskedValues, NoData)),
            Shape(cfmask))

\* create_cfmask_clean_mask(cfmask, no_data)
create_cfmask_clean_mask(cfmask, no_data) ==
    Reshape(In1dInverted(Flat(cfmask), Append(MaskedValues, no_data)),
            Shape(cfmask))

\* what a call left in returned: a value, or the exception it raised
Return(value) == [value |-> value]
Raise(exc) == [raised |-> exc]

\* ------------------------------------------------------------------------
\* generate_time_ranges
\* ------------------------------------------------------------------------

\* Acquisition times are counted in ticks of half a second, so that
\* acquisitions less than a second apart occur: datetime.timedelta(seconds=1)
\* is Second ticks.
Second == 2

\* tuple(sorted((start, end)))
SortedPair(start, end) == IF end < start THEN <<end, start>> ELSE <<start, end>>

\* acquisition_list[i] for an index i of Python, counted from 0
Item(acquisition_list, i) == acquisition_list[i + 1]

\* start and end of one pass of the loop, in this order
StartAndEnd(acquisition_list, reverse_time, slices_per_iteration, time_index) ==
    LET last == Item(acquisition_list, Len(acquisition_list) - 1)
        start == IF reverse_time
                 THEN Item(acquisition_list, time_index) + Second
                 ELSE Item(acquisition_list, time_index)
        end == IF /\ slices_per_iteration # None
                  /\ time_index + slices_per_iteration[1] - 1
                       < Len(acquisition_list)
               THEN Item(acquisition_list,
                         time_index + slices_per_iteration[1] - 1)
               ELSE IF reverse_time THEN last ELSE last + Second
    IN <<start, end>>

\* time_index after one pass of the loop
NextIndex(acquisition_list, slices_per_iteration, time_index) ==
    time_index + (IF slices_per_iteration # None THEN slices_per_iteration[1]
                  ELSE Len(acquisition_list))

\* (start, end) as it comes
TimeRange_unsorted(acquisition_list, reverse_time, slices_per_iteration, time_index) ==
    StartAndEnd(acquisition_list, reverse_time, slices_per_iteration,
                time_index)

\* time_range of one pass of the loop
TimeRange(acquisition_list, reverse_time, slices_per_iteration, time_index) ==
    LET pair == StartAndEnd(acquisition_list, reverse_time,
                            slices_per_iteration, time_index)
    IN SortedPair(pair[1], pair[2])

\* generate_time_ranges(acquisition_list, reverse_time,
\* slices_per_iteration): the generator the call returns.  The call runs
\* none of the body and reads none of its arguments; the generator holds
\* the arguments by reference, time_index is 0 when the loop starts.
generate_time_ranges(acquisition_list, reverse_time, slices_per_iteration) ==
    [state |-> "created", time_index |-> 0]

\* next(generator) for a generator that has not finished, with the values
\* its arguments have now: it goes on after the yield where it was
\* suspended, to the next yield or to the end of the loop.  What it leaves
\* is the generator and the range yielded, or StopIteration.
\* slices_per_iteration is None (<<>>) or <<n>> with n at least 1.
Resume(generator, acquisition_list, reverse_time, slices_per_iteration) ==
    LET time_index ==
            IF generator.state = "suspended"
            THEN NextIndex(acquisition_list, slices_per_iteration,
                           generator.time_index)
            ELSE generator.time_index
    IN IF time_index < Len(acquisition_list)
       THEN [generator |-> [state |-> "suspended", time_index |-> time_index],
             yielded |-> Return(TimeRange(acquisition_list, reverse_time,
                                          slices_per_iteration, time_index))]
       ELSE [generator |-> [state |-> "finished", time_index |-> time_index],
             yielded |-> Raise("StopIteration")]

\* ------------------------------------------------------------------------
\* DataAccessApi (src/data_access_api.py)
\* ------------------------------------------------------------------------

\* An optional argument is None when it was left out and Some(x) when the
\* value x was given.  A dict is a function on its keys, the empty dict the
\* function on no key.
Some(x) == <<x>>

EmptyDict == <<>>

\* the dict after dict[key] = value
Put(dict, key, value) ==
    [k \in DOMAIN dict \cup {key} |-> IF k = key THEN value ELSE dict[k]]

\* The data cube holds scenes: each has a product, a product type, a
\* platform, an acquisition time in nanoseconds and the degrees of latitude
\* and longitude it covers, one pixel per degree.  A loaded xarray.Dataset
\* is the list of its scenes in the order of its time coordinate; the
\* dataset of no scenes has no data variable and no coordinate.
XrDataset(scenes) == [scenes |-> scenes]

\* the scenes of a set (of different times) in the order of time
RECURSIVE SortedByTime(_)
SortedByTime(scenes) ==
    IF scenes = {} THEN <<>>
    ELSE LET first == CHOOSE s \in scenes : \A o \in scenes : s.time <= o.time
         IN <<first>> \o SortedByTime(scenes \ {first})

\* nanoseconds in a millisecond
NsPerMs == 1000000

\* the bounds (lower, upper) of two ranges overlap
Overlap(a, b) == a[1] <= b[2] /\ b[1] <= a[2]

\* the scenes of the data cube that a call dc.load(product=..., **query)
\* matches: a query without a key does not constrain it
Matches(cube, load) ==
    {s \in cube :
        /\ s.product = load.product
        /\ "product_type" \in DOMAIN load.query =>
              s.product_type = load.query.product_type
        /\ "platform" \in DOMAIN load.query => s.platform = load.query.platform
        /\ "time" \in DOMAIN load.query =>
              /\ load.query.time[1] * NsPerMs <= s.time
              /\ s.time <= load.query.time[2] * NsPerMs
        /\ "longitude" \in DOMAIN load.query =>
              Overlap(s.longitude, load.query.longitude)
        /\ "latitude" \in DOMAIN load.query =>
              Overlap(s.latitude, load.query.latitude)}

\* self.dc.load(...): the dataset of the scenes matched
Load(cube, load) == XrDataset(SortedByTime(Matches(cube, load)))

\* the query get_dataset_by_extent builds from its arguments
QueryOf(a) ==
    LET q1 == IF a.product_type # None
              THEN Put(EmptyDict, "product_type", a.product_type[1])
              ELSE EmptyDict
        q2 == IF a.platform # None THEN Put(q1, "platform", a.platform[1])
              ELSE q1
        q3 == IF a.time # None THEN Put(q2, "time", a.time[1]) ELSE q2
        q4 == IF a.longitude # None /\ a.latitude # None
              THEN Put(Put(q3, "longitude", a.longitude[1]),
                       "latitude", a.latitude[1])
              ELSE q3
    IN IF a.crs # None THEN Put(q4, "crs", a.crs[1]) ELSE q4

\* the arguments of get_dataset_by_extent, those after product None unless
\* given in the record given
DatasetArguments(product, given) ==
    [k \in {"product", "product_type", "platform", "time", "longitude",
            "latitude", "measurements", "output_crs", "resolution", "crs",
            "dask_chunks"} |->
        IF k = "product" THEN product
        ELSE IF k \in DOMAIN given THEN given[k] ELSE None]

\* the call of dc.load that get_dataset_by_extent makes
LoadOf(a) ==
    [product |-> a.product, measurements |-> a.measurements,
     output_crs |-> a.output_crs, resolution |-> a.resolution,
     dask_chunks |-> a.dask_chunks, query |-> QueryOf(a)]

\* get_dataset_by_extent(**a) on the data cube: the calls of dc.load it
\* made and what it returned
get_dataset_by_extent(cube, a) ==
    [loads |-> <<LoadOf(a)>>, returned |-> Return(Load(cube, LoadOf(a)))]

\* product_data with the variable satellite set to index
WithSatellite(data, index) ==
    XrDataset([k \in 1..Len(data.scenes) |->
                  [scene |-> data.scenes[k], satellite |-> index]])

\* the scenes of the datasets in data_array, one list after the other
RECURSIVE Concatenated(_)
Concatenated(data_array) ==
    IF data_array = <<>> THEN <<>>
    ELSE Head(data_array).scenes \o Concatenated(Tail(data_array))

\* combined_data.reindex({'time': sorted(combined_data.time.values)}) for
\* scenes of different times
RECURSIVE SortedScenes(_)
SortedScenes(entries) ==
    IF entries = {} THEN <<>>
    ELSE LET first == CHOOSE e \in entries :
                         \A o \in entries : e.scene.time <= o.scene.time
         IN <<first>> \o SortedScenes(entries \ {first})

\* the loop of get_stacked_datasets_by_extent from the product at position
\* i (index i - 1) on
RECURSIVE StackLoop(_, _, _, _, _)
StackLoop(cube, a, i, loads, data_array) ==
    IF i > Len(a.products)
    THEN [loads |-> loads,
          returned |->
              Return(IF Len(data_array) > 0
                     THEN XrDataset(SortedScenes(
                              {Concatenated(data_array)[k] :
                                  k \in 1..Len(Concatenated(data_array))}))
                     ELSE None)]
    ELSE IF a.platforms = None
    THEN [loads |-> loads, returned |-> Raise("TypeError")]
    ELSE IF i > Len(a.platforms[1])
    THEN [loads |-> loads, returned |-> Raise("IndexError")]
    ELSE LET product_data ==
                 get_dataset_by_extent(cube,
                     DatasetArguments(a.products[i],
                         [product_type |-> a.product_type,
                          platform |-> a.platforms[1][i],
                          time |-> a.time,
                          longitude |-> a.longitude,
                          latitude |-> a.latitude,
                          measurements |-> a.measurements,
                          output_crs |-> a.output_crs,
                          resolution |-> a.resolution,
                          dask_chunks |-> a.dask_chunks]))
         IN StackLoop(cube, a, i + 1, loads \o product_data.loads,
                IF product_data.returned.value.scenes # <<>>
                THEN Append(data_array,
                            WithSatellite(product_data.returned.value, i - 1))
                ELSE data_array)

\* get_stacked_datasets_by_extent(**a) on the data cube
get_stacked_datasets_by_extent(cube, a) == StackLoop(cube, a, 1, <<>>, <<>>)

\* the least and the greatest of a non-empty set of numbers
Least(set) == CHOOSE x \in set : \A y \in set : x <= y
Greatest(set) == CHOOSE x \in set : \A y \in set : x >= y

\* time.values.astype('M8[ms]').tolist(): the time in whole milliseconds
ToMs(time) == time \div NsPerMs

\* the descriptor of a dataset holding no data
ZeroDescriptor ==
    [lat_extents |-> <<0, 0>>, lon_extents |-> <<0, 0>>,
     time_extents |-> <<0, 0>>, scene_count |-> 0, pixel_count |-> 0,
     tile_count |-> 0, storage_units |-> EmptyDict]

\* the descriptor of a dataset holding data: the envelope of its geobox,
\* its first and last time, the sizes of its time and of its geobox
Descriptor(dataset) ==
    LET n == Len(dataset.scenes)
        lat_min == Least({dataset.scenes[k].latitude[1] : k \in 1..n})
        lat_max == Greatest({dataset.scenes[k].latitude[2] : k \in 1..n})
        lon_min == Least({dataset.scenes[k].longitude[1] : k \in 1..n})
        lon_max == Greatest({dataset.scenes[k].longitude[2] : k \in 1..n})
    IN [lat_extents |-> <<lat_min, lat_max>>,
        lon_extents |-> <<lon_min, lon_max>>,
        time_extents |-> <<ToMs(dataset.scenes[1].time),
                           ToMs(dataset.scenes[n].time)>>,
        scene_count |-> n,
        pixel_count |-> (lat_max - lat_min) * (lon_max - lon_min)]

\* the arguments get_scene_metadata and list_acquisition_dates pass on
MetadataArguments(a) ==
    DatasetArguments(a.product,
        [platform |-> a.platform, longitude |-> a.longitude,
         latitude |-> a.latitude, crs |-> a.crs, time |-> a.time,
         dask_chunks |-> Some(EmptyDict)])

\* get_scene_metadata that describes the empty dataset like any other
get_scene_metadata_unguarded(cube, a) ==
    LET call == get_dataset_by_extent(cube, MetadataArguments(a))
    IN [loads |-> call.loads,
        returned |->
            IF call.returned.value.scenes = <<>>
            THEN Raise("IndexError")
            ELSE Return(Descriptor(call.returned.value))]

\* get_scene_metadata(**a) on the data cube
get_scene_metadata(cube, a) ==
    LET call == get_dataset_by_extent(cube, MetadataArguments(a))
    IN [loads |-> call.loads,
        returned |->
            Return(IF call.returned.value.scenes = <<>> THEN ZeroDescriptor
                   ELSE Descriptor(call.returned.value))]

\* list_acquisition_dates(**a) on the data cube
list_acquisition_dates(cube, a) ==
    LET call == get_dataset_by_extent(cube, MetadataArguments(a))
        dataset == call.returned.value
    IN [loads |-> call.loads,
        returned |->
            Return(IF dataset.scenes = <<>> THEN <<>>
                   ELSE [k \in 1..Len(dataset.scenes) |->
                            ToMs(dataset.scenes[k].time)])]

\* get_datacube_metadata(platform, product) on the data cube
get_datacube_metadata(cube, platform, product) ==
    get_scene_metadata(cube,
        [platform |-> platform, product |-> product, longitude |-> None,
         latitude |-> None, crs |-> None, time |-> None])

\* ------------------------------------------------------------------------
\* EVI and EVI2 (src/data_cube_utilities/dc_ndvi_anomaly.py)
\* ------------------------------------------------------------------------

\* The bands of a dataset are float arrays, lists of the values of the
\* pixels.

\* x < y for numpy floats: False when either is nan
NpLess(x, y) ==
    /\ x # NaN /\ y # NaN /\ x # y
    /\ IF x \in {Inf(FALSE), Inf(TRUE)} THEN x.neg
       ELSE IF y \in {Inf(FALSE), Inf(TRUE)} THEN ~y.neg
       ELSE FCmp[x, y] < 0

\* the float constants of EVI and EVI2: 2.5, 7.5 and 2.4
TwoAndHalf == FDiv[FOfInt[5], FOfInt[2]]
SevenAndHalf == FDiv[FOfInt[15], FOfInt[2]]
TwoPointFour == FDiv[FOfInt[12], FOfInt[5]]

\* G * (nir - red) / (nir + C1 * red - C2 * blue + L) at one pixel
EVIQuotient[nir \in Floats, red \in Floats, blue \in Floats, G \in Floats, C1 \in Floats, C2 \in Floats, L \in Floats] ==
    NpDiv[FMul[G, FSub[nir, red]],
          FAdd[FSub[FAdd[nir, FMul[C1, red]], FMul[C2, blue]], L]]

\* G * (nir - red) / (nir + C * red + L) at one pixel
EVI2Quotient[nir \in Floats, red \in Floats, G \in Floats, C \in Floats, L \in Floats] ==
    NpDiv[FMul[G, FSub[nir, red]], FAdd[FAdd[nir, FMul[C, red]], L]]

\* values[values < -1] = -1, then values[2.5 < values] = 2.5
Clamped(values) ==
    [p \in DOMAIN values |->
        IF NpLess(values[p], FOfInt[-1]) THEN FOfInt[-1]
        ELSE IF NpLess(TwoAndHalf, values[p]) THEN TwoAndHalf
        ELSE values[p]]

\* np.interp(x, xp, fp) for two points xp[1] < xp[2]: nan for nan, fp[1]
\* below xp[1] and fp[2] from xp[2] on, infinities included
Interp[x \in NpFloats, xp \in Seq(Floats), fp \in Seq(Floats)] ==
    IF x = NaN THEN NaN
    ELSE IF NpLess(x, xp[1]) THEN fp[1]
    ELSE IF ~NpLess(x, xp[2]) THEN fp[2]
    ELSE IF x = xp[1] THEN fp[1]
    ELSE FAdd[FMul[FDiv[FSub[fp[2], fp[1]], FSub[xp[2], xp[1]]],
                   FSub[x, xp[1]]],
              fp[1]]

\* values[0 < values] = np.interp(values[0 < values], (0, 2.5), (0, 1))
Interpolated(values) ==
    [p \in DOMAIN values |->
        IF NpLess(FZero, values[p])
        THEN Interp[values[p], <<FZero, TwoAndHalf>>, <<FZero, FOfInt[1]>>]
        ELSE values[p]]

\* the clamped index, scaled when normalize
Finished[values \in Seq(NpFloats), normalize \in BOOLEAN] ==
    IF normalize THEN Interpolated(values) ELSE values

\* EVI without the clamp at 2.5
EVI_unclamped(ds, G, C1, C2, L, normalize) ==
    Finished[[p \in DOMAIN ds.nir |->
                 IF NpLess(EVIQuotient[ds.nir[p], ds.red[p], ds.blue[p],
                                       G, C1, C2, L], FOfInt[-1])
                 THEN FOfInt[-1]
                 ELSE EVIQuotient[ds.nir[p], ds.red[p], ds.blue[p],
                                  G, C1, C2, L]],
             normalize]

\* EVI(ds, G, C1, C2, L, normalize)
EVI(ds, G, C1, C2, L, normalize) ==
    Finished[Clamped([p \in DOMAIN ds.nir |->
                         EVIQuotient[ds.nir[p], ds.red[p], ds.blue[p],
                                     G, C1, C2, L]]),
             normalize]

\* EVI2(ds, G, C, L, normalize)
EVI2(ds, G, C, L, normalize) ==
    Finished[Clamped([p \in DOMAIN ds.nir |->
                         EVI2Quotient[ds.nir[p], ds.red[p], G, C, L]]),
             normalize]

\* ------------------------------------------------------------------------
\* compute_ndvi_anomaly (src/data_cube_utilities/dc_ndvi_anomaly.py)
\* ------------------------------------------------------------------------

\* np.isfinite(x)
NpIsFinite(x) == x \notin {NaN, Inf(FALSE), Inf(TRUE)}

\* -x, x + y, x - y and x / y for numpy floats
NpNeg(x) ==
    IF x = NaN THEN NaN
    ELSE IF NpIsFinite(x) THEN FNeg(x) ELSE Inf(~x.neg)

NpAdd[x \in NpFloats, y \in NpFloats] ==
    IF x = NaN \/ y = NaN THEN NaN
    ELSE IF ~NpIsFinite(x)
    THEN (IF ~NpIsFinite(y) /\ y.neg # x.neg THEN NaN ELSE x)
    ELSE IF ~NpIsFinite(y) THEN y
    ELSE FAdd[x, y]

NpSub[x \in NpFloats, y \in NpFloats] == NpAdd[x, NpNeg(y)]

NpQuotient[x \in NpFloats, y \in NpFloats] ==
    IF x = NaN \/ y = NaN THEN NaN
    ELSE IF ~NpIsFinite(x)
    THEN (IF ~NpIsFinite(y) THEN NaN ELSE Inf(x.neg # y.neg))
    ELSE IF ~NpIsFinite(y) THEN FZero
    ELSE NpDiv[x, y]

\* band.where((band != no_data) & mask) at the pixels of one time
Where(band, no_data, mask) ==
    [p \in DOMAIN band |->
        IF band[p] # FOfInt[no_data] /\ mask[p] THEN band[p] ELSE NaN]

\* (nir - red) / (nir + red) at the pixels of one time
NDVI[nir \in Seq(NpFloats), red \in Seq(NpFloats)] ==
    [p \in DOMAIN nir |->
        NpQuotient[NpSub[nir[p], red[p]], NpAdd[nir[p], red[p]]]]

\* the values of list in ascending order
RECURSIVE NpSorted(_)
NpSorted(list) ==
    IF list = <<>> THEN <<>>
    ELSE LET k == CHOOSE k \in 1..Len(list) :
                      \A j \in 1..Len(list) : ~NpLess(list[j], list[k])
         IN <<list[k]>>
              \o NpSorted([j \in 1..(Len(list) - 1) |->
                              IF j < k THEN list[j] ELSE list[j + 1]])

\* the median of the values of list that are not nan, nan if there is none
NanMedian[list \in Seq(NpFloats)] ==
    LET sorted == NpSorted(SelectSeq(list, LAMBDA x : x # NaN))
        n == Len(sorted)
    IN IF n = 0 THEN NaN
       ELSE IF n % 2 = 1 THEN sorted[(n + 1) \div 2]
       ELSE NpQuotient[NpAdd[sorted[n \div 2], sorted[(n \div 2) + 1]],
                       FOfInt[2]]

\* baseline_ndvi.median('time') for the NDVI of each time
MedianTime[ndvi \in Seq(Seq(NpFloats))] ==
    [p \in DOMAIN ndvi[1] |-> NanMedian[[t \in DOMAIN ndvi |-> ndvi[t][p]]]]

\* values[~np.isfinite(values)] = no_data
NotFiniteToNoData(values, no_data) ==
    [p \in DOMAIN values |->
        IF NpIsFinite(values[p]) THEN values[p] ELSE FOfInt[no_data]]

\* the dataset returned for the NDVI of the scene and the median NDVI of
\* the baseline
AnomalyDataset[scene_ndvi \in Seq(NpFloats), median_ndvi \in Seq(NpFloats), no_data \in Int] ==
    [scene_ndvi |-> NotFiniteToNoData(scene_ndvi, no_data),
     baseline_ndvi |-> median_ndvi,
     ndvi_difference |->
         NotFiniteToNoData([p \in DOMAIN scene_ndvi |->
                               NpSub[scene_ndvi[p], median_ndvi[p]]], no_data),
     ndvi_percentage_change |->
         NotFiniteToNoData([p \in DOMAIN scene_ndvi |->
                               NpQuotient[NpSub[scene_ndvi[p], median_ndvi[p]],
                                          median_ndvi[p]]], no_data)]

\* the NDVI of the baseline at each time, masked by no_data and the clear
\* mask
BaselineNDVI(baseline_data, baseline_clear_mask, no_data) ==
    [t \in DOMAIN baseline_data.nir |->
        NDVI[Where(baseline_data.nir[t], no_data, baseline_clear_mask[t]),
             Where(baseline_data.red[t], no_data, baseline_clear_mask[t])]]

\* the NDVI of the scene, masked by no_data and where water_class is not 0
SceneNDVI(scene_data, water_class, no_data) ==
    NDVI[Where(scene_data.nir, no_data,
               [p \in DOMAIN water_class |-> water_class[p] = 0]),
         Where(scene_data.red, no_data,
               [p \in DOMAIN water_class |-> water_class[p] = 0])]

\* compute_ndvi_anomaly without its assertion: the & of a dataset and None
\* raises
compute_ndvi_anomaly_unasserted(baseline_data, scene_data, baseline_clear_mask, selected_scene_clear_mask, no_data, water_class) ==
    IF baseline_clear_mask = None
    THEN [reads |-> <<"baseline_data">>, returned |-> Raise("TypeError")]
    ELSE IF selected_scene_clear_mask = None
    THEN [reads |-> <<"baseline_data", "scene_data">>,
          returned |-> Raise("TypeError")]
    ELSE [reads |-> <<"baseline_data", "scene_data">>,
          returned |->
              Return(AnomalyDataset[
                  SceneNDVI(scene_data, water_class, no_data),
                  MedianTime[BaselineNDVI(baseline_data,
                                          baseline_clear_mask[1], no_data)],
                  no_data])]

\* compute_ndvi_anomaly(baseline_data, scene_data, baseline_clear_mask,
\* selected_scene_clear_mask, no_data), where water_class is what
\* wofs_classify(scene_data, clean_mask=selected_scene_clear_mask,
\* mosaic=True).wofs holds: the datasets it read and what it returned
compute_ndvi_anomaly(baseline_data, scene_data, baseline_clear_mask, selected_scene_clear_mask, no_data, water_class) ==
    IF ~(selected_scene_clear_mask # None /\ baseline_clear_mask # None)
    THEN [reads |-> <<>>, returned |-> Raise("AssertionError")]
    ELSE [reads |-> <<"baseline_data", "scene_data">>,
          returned |->
              Return(AnomalyDataset[
                  SceneNDVI(scene_data, water_class, no_data),
                  MedianTime[BaselineNDVI(baseline_data,
                                          baseline_clear_mask[1], no_data)],
                  no_data])]

\* ------------------------------------------------------------------------
\* The reducers on stored datasets: arrays, copies and writes in place
\* ------------------------------------------------------------------------

\* The store is the list of the arrays allocated so far; a stored dataset
\* is the list of its data variables, each a name and the index arr of the
\* array holding its values.

\* the dataset stored at ref, by value
Deref(store, ref) ==
    [k \in 1..Len(ref) |-> [name |-> ref[k].name, values |-> store[ref[k].arr]]]

\* dataset.copy(deep=False): the same arrays under a new dataset
copy_shallow(store, ref) == [store |-> store, ref |-> ref]

\* dataset.copy(deep=True): new arrays holding the same values
copy_deep(store, ref) ==
    [store |-> store \o [k \in 1..Len(ref) |-> store[ref[k].arr]],
     ref |-> [k \in 1..Len(ref) |->
                 [name |-> ref[k].name, arr |-> Len(store) + k]]]

\* the store after writing the values of dataset ds into the arrays of ref
Write(store, ref, ds) ==
    [a \in 1..Len(store) |->
        IF \E k \in 1..Len(ref) : ref[k].arr = a
        THEN Var(ds, ref[CHOOSE k \in 1..Len(ref) : ref[k].arr = a].name)
        ELSE store[a]]

\* a dataset of totals as the list of its data variables, and back
ToTotals(ds) ==
    Totals(Var(ds, "total_data"), Var(ds, "total_clean"),
           Var(ds, "normalized_data"))

FromTotals(t) ==
    <<[name |-> "normalized_data", values |-> t.normalized_data],
      [name |-> "total_data", values |-> t.total_data],
      [name |-> "total_clean", values |-> t.total_clean]>>

\* what reducer leaves in dataset_out, the copy of dataset_intermediate
Reduced(reducer, dataset, dataset_out) ==
    CASE reducer = "fill_nodata" -> fill_nodata(dataset, dataset_out)
      [] reducer = "max_value" -> max_value(dataset, dataset_out)
      [] reducer = "min_value" -> min_value(dataset, dataset_out)
      [] reducer = "addition" ->
            FromTotals(addition(ToTotals(dataset), ToTotals(dataset_out)))

\* a call reducer(dataset, dataset_intermediate) on stored datasets: the
\* store it leaves and the dataset it returns
Reduce(store, reducer, dataset, dataset_intermediate) ==
    IF dataset_intermediate = None THEN copy_deep(store, dataset)
    ELSE LET out == copy_deep(store, dataset_intermediate)
         IN [store |-> Write(out.store, out.ref,
                             Reduced(reducer, Deref(out.store, dataset),
                                     Deref(out.store, out.ref))),
             ref |-> out.ref]

\* ------------------------------------------------------------------------
\* xarray_time_series_plot and skip_plot
\* (src/data_cube_utilities/plotter_utils.py)
\*
\* A dataset maps the name of a data variable to its values, one row for
\* each time and in a row one value for each stacked pixel; its times are
\* 1..NumTimes in the order of the time coordinate.  plot_descs is the list
\* of the plots it describes in the order the nested loops meet them, each
\* with the name of its data variable, its aggregation type, its plot type
\* and its keyword arguments.  What matplotlib draws is left out: a figure
\* is the list of its plots, a plot the list of its legend labels.
\* ------------------------------------------------------------------------

plot_types_requiring_aggregation == {"line", "gaussian", "poly", "cubic_spline"}

plot_types_handling_aggregation ==
    {"scatter"} \cup plot_types_requiring_aggregation

plot_types_not_handling_aggregation == {"box"}

all_plot_types ==
    plot_types_requiring_aggregation \cup plot_types_handling_aggregation
        \cup plot_types_not_handling_aggregation

many_to_one_agg_types == {"mean", "median"}

many_to_many_agg_types == {"none"}

min_pts_dict ==
    [scatter |-> 1, box |-> 1, gaussian |-> 3, poly |-> 1, cubic_spline |-> 3,
     line |-> 2]

\* skip_plot(n_pts, plot_type, kwargs): whether the data has too few points
\* for the plot
skip_plot(n_pts, plot_type, kwargs) ==
    IF plot_type \notin DOMAIN min_pts_dict THEN Raise("KeyError")
    ELSE IF plot_type = "poly" /\ "degree" \notin DOMAIN kwargs
    THEN Raise("AssertionError")
    ELSE Return(n_pts < (IF plot_type = "poly"
                         THEN min_pts_dict[plot_type] + kwargs.degree
                         ELSE min_pts_dict[plot_type]))

\* the names of the data variables to plot
PlottingBands(plot_descs) ==
    {plot_descs[i].data_arr_name : i \in 1..Len(plot_descs)}

\* the number of times of a dataset
NumTimes(dataset) == Len(dataset[CHOOSE name \in DOMAIN dataset : TRUE])

\* np.any(~np.isnan(row)): the row holds a value
AnyNotNan(row) == \E p \in 1..Len(row) : row[p] # NaN

\* the entries of the list at the positions where the mask holds
RECURSIVE Masked(_, _)
Masked(list, mask) ==
    IF list = <<>> THEN <<>>
    ELSE (IF Head(mask) THEN <<Head(list)>> ELSE <<>>)
         \o Masked(Tail(list), Tail(mask))

\* times_not_all_nan: the times at which a data variable to plot holds a
\* value
TimesNotAllNan(dataset, plot_descs) ==
    Masked([t \in 1..NumTimes(dataset) |-> t],
           [t \in 1..NumTimes(dataset) |->
               \E name \in PlottingBands(plot_descs) :
                   AnyNotNan(dataset[name][t])])

\* the legend label of a plot
PlotTypeStr(plot_type, kwargs) ==
    CASE plot_type = "scatter" -> "scatterplot"
      [] plot_type = "line" -> "lineplot"
      [] plot_type = "box" -> "boxplot"
      [] plot_type = "gaussian" -> "gaussian fit"
      [] plot_type = "poly" -> "degree " \o ToString(kwargs.degree)
                                  \o " polynomial fit"
      [] plot_type = "cubic_spline" -> "cubic spline fit"

LegendLabel(plot) ==
    PlotTypeStr(plot.plot_type, plot.plot_kwargs)
        \o (IF plot.agg_type # "none" THEN " of " \o plot.agg_type ELSE "")
        \o " of " \o plot.data_arr_name

\* the keyword arguments of a box plot after
\* plot_kwargs.setdefault('boxprops', dict(facecolor='orange')),
\* plot_kwargs.setdefault('flierprops', dict(marker='o', markersize=0.5))
\* and plot_kwargs.setdefault('showfliers', False)
BoxDefaults ==
    [boxprops |-> [facecolor |-> "orange"],
     flierprops |-> [marker |-> "o",
                     markersize |-> FDiv[FOfInt[1], FOfInt[2]]],
     showfliers |-> FALSE]

SetDefaults(plot_kwargs) ==
    [key \in DOMAIN plot_kwargs \cup DOMAIN BoxDefaults |->
        IF key \in DOMAIN plot_kwargs THEN plot_kwargs[key]
        ELSE BoxDefaults[key]]

\* plot_descs after the plot at position i was drawn: the keyword
\* arguments of a box plot are the caller's dict, changed in place
Drawn(plot_descs, i) ==
    IF plot_descs[i].plot_type = "box"
    THEN [plot_descs EXCEPT
             ![i].plot_kwargs = SetDefaults(plot_descs[i].plot_kwargs)]
    ELSE plot_descs

\* the loops over plot_descs for the plot of the times fig_times, from the
\* plot at position i on: plot_descs as the loops left it, and the legend
\* labels or the exception raised
RECURSIVE DataVariablePlots(_, _, _, _, _)
DataVariablePlots(dataset, fig_times, plot_descs, i, legend_labels) ==
    IF i > Len(plot_descs)
    THEN [plot_descs |-> plot_descs, returned |-> Return(legend_labels)]
    ELSE LET plot == plot_descs[i]
             n_pts == Cardinality({k \in 1..Len(fig_times) :
                          AnyNotNan(dataset[plot.data_arr_name][fig_times[k]])})
             skip == skip_plot(n_pts, plot.plot_type, plot.plot_kwargs)
         IN IF plot.plot_type \notin all_plot_types
            THEN [plot_descs |-> plot_descs,
                  returned |-> Raise("AssertionError")]
            ELSE IF "raised" \in DOMAIN skip
            THEN [plot_descs |-> plot_descs, returned |-> skip]
            ELSE IF skip.value
            THEN DataVariablePlots(dataset, fig_times, plot_descs, i + 1,
                                   legend_labels)
            ELSE IF /\ plot.plot_type \in plot_types_requiring_aggregation
                    /\ plot.agg_type \notin many_to_one_agg_types
            THEN [plot_descs |-> plot_descs, returned |-> Raise("ValueError")]
            ELSE IF /\ plot.plot_type \notin plot_types_handling_aggregation
                    /\ plot.agg_type \notin many_to_many_agg_types
            THEN [plot_descs |-> plot_descs, returned |-> Raise("ValueError")]
            ELSE DataVariablePlots(dataset, fig_times, Drawn(plot_descs, i),
                                   i + 1,
                                   Append(legend_labels, LegendLabel(plot)))

\* the loop that creates each plot, from the plot fig_ind (counted from 0)
\* on: plot_descs as the loop left it, and the figure or the exception
\* raised
RECURSIVE Plots(_, _, _, _, _, _)
Plots(dataset, plot_descs, times_not_all_nan, max_times_per_plot, fig_ind, fig) ==
    LET time_ind == fig_ind * max_times_per_plot
        upper_time_bound_ind ==
            IF time_ind + max_times_per_plot < Len(times_not_all_nan)
            THEN time_ind + max_times_per_plot
            ELSE Len(times_not_all_nan)
        plots == DataVariablePlots(dataset,
                     SubSeq(times_not_all_nan, time_ind + 1,
                            upper_time_bound_ind),
                     plot_descs, 1, <<>>)
    IN IF time_ind >= Len(times_not_all_nan)
       THEN [plot_descs |-> plot_descs, returned |-> Return(fig)]
       ELSE IF "raised" \in DOMAIN plots.returned THEN plots
       ELSE Plots(dataset, plots.plot_descs, times_not_all_nan,
                  max_times_per_plot, fig_ind + 1,
                  Append(fig, plots.returned.value))

\* xarray_time_series_plot(dataset, plot_descs,
\* max_times_per_plot=max_times_per_plot) for a dataset with the coordinate
\* time and a plot_descs that is not empty: plot_descs as the call left
\* it, and the figure it returns or the exception it raises.
\* max_times_per_plot is None (<<>>) or <<n>>.
xarray_time_series_plot(dataset, plot_descs, max_times_per_plot) ==
    LET times_not_all_nan == TimesNotAllNan(dataset, plot_descs)
        max_times == IF max_times_per_plot = None
                     THEN Len(times_not_all_nan)
                     ELSE max_times_per_plot[1]
    IN IF max_times = 0
       THEN [plot_descs |-> plot_descs,
             returned |-> Raise("ZeroDivisionError")]
       ELSE Plots(dataset, plot_descs, times_not_all_nan, max_times, 0, <<>>)

\* ------------------------------------------------------------------------
\* State: the arguments of the split_task call in progress and what it
\* returned; the time slices folded so far (result = reducer(slice, result),
\* starting from None), the second argument of the last reducer call and
\* what that call returned; the store of arrays, the stored datasets of a
\* reducer call (its arguments and, once it returned, its result), the
\* values the arguments had when they were passed, and the number of
\* changes made to the result since; the function of the call in progress,
\* its arguments and what it returned, the datasets the data cube holds,
\* and the log of what the call did to the objects passed to it (the
\* queries loaded from the data cube, the datasets read).  For
\* generate_time_ranges returned is the generator, log the ranges the
\* caller received from it, passed the list as it was passed and changes
\* the number of changes the caller made to the list since.
\* ------------------------------------------------------------------------

VARIABLES pc, resolution, latitude, longitude, acquisitions, geo_chunk_size,
          time_chunks, reverse_time, result,
          slices, dataset_intermediate, dataset_out,
          store, reducer, stored, passed, changes,
          called, arguments, returned, index, log

vars == <<pc, resolution, latitude, longitude, acquisitions, geo_chunk_size,
          time_chunks, reverse_time, result,
          slices, dataset_intermediate, dataset_out,
          store, reducer, stored, passed, changes,
          called, arguments, returned, index, log>>

splitArgs == <<resolution, latitude, longitude, acquisitions, geo_chunk_size,
               time_chunks, reverse_time>>

splitVars == <<pc, resolution, latitude, longitude, acquisitions,
               geo_chunk_size, time_chunks, reverse_time, result>>

foldVars == <<slices, dataset_intermediate, dataset_out>>

storeVars == <<store, reducer, stored, passed, changes>>

callVars == <<called, arguments, returned, index, log>>

\* what an action on one family of variables leaves alone
notSplit == <<foldVars, storeVars, callVars>>
notFold == <<splitVars, storeVars, callVars>>
notStore == <<splitVars, foldVars, callVars>>
notCall == <<splitVars, foldVars, storeVars>>

\* Input sets.  Latitude, longitude and geo_chunk_size are Python ints,
\* the tuples (lower, upper) with lower < upper, the chunk area positive.
LatitudeInputs == {None, <<0, 1>>, <<0, 7>>, <<0, 11>>, <<-2, 1>>}
LongitudeInputs == {None, <<0, 4>>, <<0, 5>>, <<0, 7>>, <<-3, 3>>}
GeoChunkSizes == {None, <<1>>, <<2>>, <<3>>, <<50>>}
Resolutions == {FZero, DefaultResolution}

\* Acquisition dates are numbered 1..MaxDate; a list holds up to
\* MaxAcquisitions of them in any order, repeats included.
MaxDate == 3
MaxAcquisitions == 4
MaxTimeChunks == 5

\* a fold runs over up to MaxSlices time slices
MaxSlices == 2

\* a fold of addition runs over up to MaxChunks per-chunk results
MaxChunks == 3

AcquisitionLists ==
    UNION {[1..n -> 1..MaxDate] : n \in 0..MaxAcquisitions}

TimeChunkInputs == {None} \cup {<<n>> : n \in 0..MaxTimeChunks}

\* no fold in progress
NoFold ==
    /\ slices = <<>>
    /\ dataset_intermediate = None
    /\ dataset_out = None

\* no reducer call on stored datasets
NoStore ==
    /\ store = <<>>
    /\ reducer = "none"
    /\ stored = None
    /\ passed = None
    /\ changes = 0

\* no call in progress, an empty data cube
NoCall ==
    /\ called = "none"
    /\ arguments = None
    /\ returned = None
    /\ index = {}
    /\ log = <<>>

\* no split_task call in progress
NoSplit ==
    /\ pc = "idle"
    /\ resolution = DefaultResolution
    /\ latitude = None
    /\ longitude = None
    /\ acquisitions = <<>>
    /\ geo_chunk_size = None
    /\ time_chunks = None
    /\ reverse_time = FALSE
    /\ result = None

\* calls that vary the geographic arguments
InitSplitGeo ==
    /\ pc = "call"
    /\ resolution \in Resolutions
    /\ latitude \in LatitudeInputs
    /\ longitude \in LongitudeInputs
    /\ geo_chunk_size \in GeoChunkSizes
    /\ acquisitions = <<3, 1, 2>>
    /\ time_chunks = None
    /\ reverse_time = FALSE
    /\ result = None
    /\ NoFold
    /\ NoStore
    /\ NoCall

\* calls that vary the time arguments
InitSplitTime ==
    /\ pc = "call"
    /\ resolution = DefaultResolution
    /\ latitude = <<0, 1>>
    /\ longitude = <<0, 4>>
    /\ geo_chunk_size = None
    /\ acquisitions \in AcquisitionLists
    /\ time_chunks \in TimeChunkInputs
    /\ reverse_time \in BOOLEAN
    /\ result = None
    /\ NoFold
    /\ NoStore
    /\ NoCall

\* a fold about to start
InitFold == NoSplit /\ NoFold /\ NoStore /\ NoCall

SplitTask ==
    /\ pc = "call"
    /\ result' = split_task(resolution, latitude, longitude, acquisitions,
                            geo_chunk_size, time_chunks, reverse_time)
    /\ pc' = "done"
    /\ UNCHANGED splitArgs
    /\ UNCHANGED notSplit

\* the slices a fold may take next: all slices of a fold have the same
\* data variables in the same order
NextSlices ==
    IF slices = <<>> THEN Datasets ELSE DatasetsOf(data_vars(slices[1]))

\* result = fill_nodata(slice, result)
FillStep ==
    /\ Len(slices) < MaxSlices
    /\ \E dataset \in NextSlices :
          /\ slices' = Append(slices, dataset)
          /\ dataset_intermediate' = dataset_out
          /\ dataset_out' = fill_nodata(dataset, dataset_out)
    /\ UNCHANGED notFold

\* result = max_value(slice, result)
MaxStep ==
    /\ Len(slices) < MaxSlices
    /\ \E dataset \in NextSlices :
          /\ slices' = Append(slices, dataset)
          /\ dataset_intermediate' = dataset_out
          /\ dataset_out' = max_value(dataset, dataset_out)
    /\ UNCHANGED notFold

\* result = min_value(slice, result)
MinStep ==
    /\ Len(slices) < MaxSlices
    /\ \E dataset \in NextSlices :
          /\ slices' = Append(slices, dataset)
          /\ dataset_intermediate' = dataset_out
          /\ dataset_out' = min_value(dataset, dataset_out)
    /\ UNCHANGED notFold

\* the float n / 10, as the literal 0.n is
Tenths(n) == FDiv[FOfInt[n], FOfInt[10]]

\* total_data and total_clean of the per-chunk results, two pixels each:
\* fractions and whole numbers, a pixel without clean data, a pixel with
\* data and no clean count
ChunkTotals ==
    { << <<Tenths(1), FOfInt[1]>>, <<FOfInt[1], FOfInt[1]>> >>,
      << <<Tenths(2), FOfInt[2]>>, <<FOfInt[1], FOfInt[2]>> >>,
      << <<Tenths(3), FZero>>, <<FOfInt[2], FZero>> >>,
      << <<FZero, FZero>>, <<FZero, FZero>> >>,
      << <<FOfInt[-3], FOfInt[5]>>, <<FOfInt[1], FZero>> >>,
      << <<FOfInt[7], FOfInt[-5]>>, <<FOfInt[3], FZero>> >> }

ChunkResults == {Renormalized[t[1], t[2]] : t \in ChunkTotals}

\* result = addition(chunk_result, result)
AddStep ==
    /\ Len(slices) < MaxChunks
    /\ \E dataset \in ChunkResults :
          /\ slices' = Append(slices, dataset)
          /\ dataset_intermediate' = dataset_out
          /\ dataset_out' = addition(dataset, dataset_out)
    /\ UNCHANGED notFold

\* a time series runs over up to MaxTimes time slices in all
MaxTimes == 3

\* the values of a pixel over time: fractions at the first pixel, whole
\* numbers at the second, no_data at both
SeriesValues ==
    <<{FOfInt[NoData], Tenths(1), Tenths(4)}, {FOfInt[NoData], FOfInt[2]}>>

TimeSlices == {<<a, b>> : a \in SeriesValues[1], b \in SeriesValues[2]}

\* the time series dataset of variable ndvi with the values data
Series(data) == <<[name |-> "ndvi", values |-> data]>>

\* the datasets of 1 to n time slices
SeriesOf(n) == {Series(data) : data \in UNION {[1..k -> TimeSlices] : k \in 1..n}}

\* the number of time slices of the chunks in list
RECURSIVE Times(_)
Times(list) ==
    IF list = <<>> THEN 0
    ELSE Len(list[1][1].values) + Times(Tail(list))

\* result = perform_timeseries_analysis_iterative(chunk, result)
SeriesStep ==
    /\ Times(slices) < MaxTimes
    /\ \E dataset_in \in SeriesOf(MaxTimes - Times(slices)) :
          /\ slices' = Append(slices, dataset_in)
          /\ dataset_intermediate' = dataset_out
          /\ dataset_out' =
                perform_timeseries_analysis_iterative(dataset_in, dataset_out,
                                                      NoData)
    /\ UNCHANGED notFold

\* the result of a reducer call is changed at most MaxChanges times
MaxChanges == 1

\* the stored form of dataset ds, its arrays from index first on
StoredAt(ds, first) ==
    [k \in 1..Len(ds) |-> [name |-> ds[k].name, arr |-> first + k - 1]]

\* the arrays of dataset ds
Arrays(ds) == [k \in 1..Len(ds) |-> ds[k].values]

\* the argument pairs of the reducer calls: bands for fill_nodata,
\* max_value and min_value, totals for addition
BandArguments ==
    DatasetsOf(<<"ndvi", "red">>)
        \X ({None} \cup DatasetsOf(<<"ndvi", "red">>))

TotalsArguments ==
    {FromTotals(t) : t \in ChunkResults}
        \X ({None} \cup {FromTotals(t) : t \in ChunkResults})

\* a reducer about to be called on two stored datasets
InitStore ==
    /\ NoSplit /\ NoFold /\ NoCall
    /\ reducer \in {"fill_nodata", "max_value", "min_value", "addition"}
    /\ \E a \in IF reducer = "addition" THEN TotalsArguments
                ELSE BandArguments :
          /\ passed = [dataset |-> a[1], dataset_intermediate |-> a[2]]
          /\ store = Arrays(a[1]) \o Arrays(a[2])
          /\ stored = [dataset |-> StoredAt(a[1], 1),
                       dataset_intermediate |->
                           IF a[2] = None THEN None
                           ELSE StoredAt(a[2], Len(a[1]) + 1),
                       dataset_out |-> None]
    /\ changes = 0

\* dataset_out = reducer(dataset, dataset_intermediate)
ReducerCall ==
    /\ stored # None /\ stored.dataset_out = None
    /\ LET r == Reduce(store, reducer, stored.dataset,
                       stored.dataset_intermediate)
       IN /\ store' = r.store
          /\ stored' = [stored EXCEPT !.dataset_out = r.ref]
    /\ UNCHANGED <<reducer, passed, changes>>
    /\ UNCHANGED notStore

\* the values written into a result afterwards
ChangeValues ==
    IF reducer = "addition" THEN {FZero, FOfInt[9]} ELSE Values

\* the caller changes a pixel of the returned dataset in place
ChangeResult ==
    /\ stored # None /\ stored.dataset_out # None
    /\ changes < MaxChanges
    /\ \E k \in 1..Len(stored.dataset_out) : \E p \in Pixels :
       \E v \in ChangeValues :
          store' = [store EXCEPT ![stored.dataset_out[k].arr][p] = v]
    /\ changes' = changes + 1
    /\ UNCHANGED <<reducer, stored, passed>>
    /\ UNCHANGED notStore

\* the shapes and the values of the cfmask arrays, the no_data arguments
CfmaskShapes == {<<1, 1>>, <<1, 2>>, <<2, 1>>, <<2, 2>>}
CfmaskValues == {0, 1, 2, 3, 4, 5, 255, NoData}
CfmaskNoData == {NoData, 0, 1, 5}

Cfmasks ==
    UNION {[1..shape[1] -> [1..shape[2] -> CfmaskValues]] :
              shape \in CfmaskShapes}

\* create_cfmask_clean_mask about to be called
InitCfmask ==
    /\ NoSplit /\ NoFold /\ NoStore
    /\ called = "create_cfmask_clean_mask"
    /\ arguments \in [cfmask : Cfmasks, no_data : CfmaskNoData]
    /\ returned = None
    /\ index = {}
    /\ log = <<>>

\* clean_mask = create_cfmask_clean_mask(cfmask, no_data)
CfmaskCall ==
    /\ called = "create_cfmask_clean_mask"
    /\ returned = None
    /\ returned' = Return(create_cfmask_clean_mask(arguments.cfmask,
                                                   arguments.no_data))
    /\ UNCHANGED <<called, arguments, index, log>>
    /\ UNCHANGED notCall

SpecCfmask == InitCfmask /\ [][CfmaskCall]_vars

\* slices_per_iteration is None or up to MaxPerIteration
MaxPerIteration == 3

PerIterationInputs == {None} \cup {<<n>> : n \in 1..MaxPerIteration}

\* generate_time_ranges about to be called, with a list of acquisitions in
\* any order; passed is the value the list has when it is passed
InitRanges ==
    /\ NoSplit /\ NoFold
    /\ store = <<>> /\ reducer = "none" /\ stored = None
    /\ called = "generate_time_ranges"
    /\ arguments \in [acquisition_list : AcquisitionLists,
                      reverse_time : BOOLEAN,
                      slices_per_iteration : PerIterationInputs]
    /\ passed = arguments.acquisition_list
    /\ changes = 0
    /\ returned = None
    /\ index = {}
    /\ log = <<>>

\* what a step of the caller of generate_time_ranges leaves alone
notRanges == <<splitVars, foldVars, store, reducer, stored, passed, called, index>>

\* time_ranges = generate_time_ranges(acquisition_list, reverse_time,
\* slices_per_iteration)
RangesCall ==
    /\ called = "generate_time_ranges"
    /\ returned = None
    /\ returned' = Return(generate_time_ranges(arguments.acquisition_list,
                                               arguments.reverse_time,
                                               arguments.slices_per_iteration))
    /\ UNCHANGED <<arguments, log, changes>>
    /\ UNCHANGED notRanges

\* next(time_ranges): the caller receives the next range, which log
\* keeps, or StopIteration
RangesNext ==
    /\ called = "generate_time_ranges"
    /\ returned # None
    /\ returned.value.state # "finished"
    /\ \E next \in {Resume(returned.value, arguments.acquisition_list,
                            arguments.reverse_time,
                            arguments.slices_per_iteration)} :
          /\ returned' = Return(next.generator)
          /\ log' = IF "value" \in DOMAIN next.yielded
                    THEN Append(log, next.yielded.value)
                    ELSE log
    /\ UNCHANGED <<arguments, changes>>
    /\ UNCHANGED notRanges

\* acquisition_list.append(acquisition): the caller changes the list it
\* passed while the generator has not finished
CallerAppends ==
    /\ called = "generate_time_ranges"
    /\ returned # None
    /\ returned.value.state # "finished"
    /\ changes < MaxChanges
    /\ \E acquisition \in 1..MaxDate :
          arguments' = [arguments EXCEPT
                           !.acquisition_list = Append(@, acquisition)]
    /\ changes' = changes + 1
    /\ UNCHANGED <<returned, log>>
    /\ UNCHANGED notRanges

SpecRanges == InitRanges /\ [][RangesCall \/ RangesNext \/ CallerAppends]_vars

\* a dataset to plot holds up to MaxPlotTimes times, plot_descs up to
\* MaxPlots plots
MaxPlotTimes == 2
MaxPlots == 2

\* the values of the stacked pixels at a time: none, or one of them
PlotRows == {<<NaN, NaN>>, <<NaN, FOfInt[1]>>}

PlotDatasets ==
    UNION {[{"ndvi", "wofs"} -> [1..n -> PlotRows]] : n \in 0..MaxPlotTimes}

\* the plots plot_descs can describe: every plot type, and one that is not
\* a plot type, with every aggregation type; poly with and without degree
PlotInputs ==
    {plot \in [data_arr_name : {"ndvi", "wofs"},
               agg_type : many_to_one_agg_types \cup many_to_many_agg_types,
               plot_type : all_plot_types \cup {"bar"},
               plot_kwargs : {EmptyDict, [degree |-> 1]}] :
        plot.plot_kwargs # EmptyDict => plot.plot_type = "poly"}

\* plot_descs is a dict of dicts of lists: the plots of a data variable
\* follow one another, and among them those of an aggregation type
PlotDescs ==
    {plot_descs \in UNION {[1..n -> PlotInputs] : n \in 1..MaxPlots} :
        \A i, j, k \in 1..Len(plot_descs) :
            (i < j /\ j < k) =>
                /\ plot_descs[i].data_arr_name = plot_descs[k].data_arr_name
                     => plot_descs[j].data_arr_name
                          = plot_descs[i].data_arr_name
                /\ (/\ plot_descs[i].data_arr_name
                         = plot_descs[k].data_arr_name
                    /\ plot_descs[i].agg_type = plot_descs[k].agg_type)
                     => plot_descs[j].agg_type = plot_descs[i].agg_type}

\* xarray_time_series_plot about to be called
InitPlot ==
    /\ NoSplit /\ NoFold /\ NoStore
    /\ called = "xarray_time_series_plot"
    /\ arguments \in [dataset : PlotDatasets, plot_descs : PlotDescs,
                      max_times_per_plot :
                          {None} \cup {<<n>> : n \in 1..MaxPlotTimes}]
    /\ returned = None
    /\ index = {}
    /\ log = <<>>

\* fig = xarray_time_series_plot(dataset, plot_descs,
\* max_times_per_plot=max_times_per_plot)
PlotCall ==
    /\ called = "xarray_time_series_plot"
    /\ returned = None
    /\ \E call \in {xarray_time_series_plot(arguments.dataset,
                                             arguments.plot_descs,
                                             arguments.max_times_per_plot)} :
          /\ returned' = call.returned
          /\ arguments' = [arguments EXCEPT !.plot_descs = call.plot_descs]
    /\ UNCHANGED <<called, index, log>>
    /\ UNCHANGED notCall

SpecPlot == InitPlot /\ [][PlotCall]_vars

\* the data cube holds up to MaxIndexed scenes
MaxIndexed == 2

\* the scenes that can be indexed: two products of a platform each, scenes
\* of different times and places
Scenes ==
    {[product |-> "ls7_ledaps", product_type |-> "ledaps",
      platform |-> "LANDSAT_7", time |-> 1000000,
      latitude |-> <<0, 1>>, longitude |-> <<0, 1>>],
     [product |-> "ls7_ledaps", product_type |-> "ledaps",
      platform |-> "LANDSAT_7", time |-> 3500000,
      latitude |-> <<0, 1>>, longitude |-> <<2, 4>>],
     [product |-> "ls8_ledaps", product_type |-> "ledaps",
      platform |-> "LANDSAT_8", time |-> 2000000,
      latitude |-> <<1, 3>>, longitude |-> <<0, 1>>],
     [product |-> "ls8_ledaps", product_type |-> "ledaps",
      platform |-> "LANDSAT_8", time |-> 4000001,
      latitude |-> <<5, 6>>, longitude |-> <<5, 6>>]}

\* the arguments of the calls
Products == {"ls7_ledaps", "ls8_ledaps"}
PlatformInputs == {None, Some("LANDSAT_7"), Some("LANDSAT_8")}
ProductTypeInputs == {None, Some("ledaps")}
TimeInputs == {None, Some(<<1, 3>>)}
ExtentInputs == {None, Some(<<0, 1>>)}
CrsInputs == {None, Some("EPSG:4326")}

\* lists of different products, and the lists of platforms given with them
ProductLists ==
    {list \in UNION {[1..n -> Products] : n \in 0..Cardinality(Products)} :
        \A i, j \in 1..Len(list) : list[i] = list[j] => i = j}
PlatformLists ==
    {None, Some(<<>>), Some(<<Some("LANDSAT_7")>>),
     Some(<<Some("LANDSAT_7"), Some("LANDSAT_8")>>),
     Some(<<Some("LANDSAT_8"), Some("LANDSAT_7")>>), Some(<<None, None>>)}

\* no call was made yet
NotCalled == called = "none"

\* a scene is indexed in the data cube
IndexScene ==
    /\ NotCalled
    /\ Cardinality(index) < MaxIndexed
    /\ \E scene \in Scenes \ index : index' = index \cup {scene}
    /\ UNCHANGED <<called, arguments, returned, log>>
    /\ UNCHANGED notCall

\* a call of a function of DataAccessApi with the arguments a, which
\* made the calls of dc.load in loads and left returned
Called(function, a, call) ==
    /\ called' = function
    /\ arguments' = a
    /\ returned' = call.returned
    /\ log' = log \o call.loads
    /\ UNCHANGED index
    /\ UNCHANGED notCall

GetDatasetByExtent ==
    /\ NotCalled
    /\ \E product \in Products :
       \E given \in [product_type : ProductTypeInputs,
                     platform : PlatformInputs, time : TimeInputs,
                     longitude : ExtentInputs, latitude : ExtentInputs,
                     crs : CrsInputs] :
          Called("get_dataset_by_extent", DatasetArguments(product, given),
                 get_dataset_by_extent(index, DatasetArguments(product, given)))

GetStackedDatasetsByExtent ==
    /\ NotCalled
    /\ \E a \in [products : ProductLists, product_type : ProductTypeInputs,
                 platforms : PlatformLists, time : TimeInputs,
                 longitude : ExtentInputs, latitude : ExtentInputs,
                 measurements : {None}, output_crs : {None},
                 resolution : {None}, dask_chunks : {None}] :
          Called("get_stacked_datasets_by_extent", a,
                 get_stacked_datasets_by_extent(index, a))

\* the arguments of get_scene_metadata and list_acquisition_dates
MetadataInputs ==
    [platform : PlatformInputs, product : Products,
     longitude : ExtentInputs, latitude : ExtentInputs, crs : CrsInputs,
     time : TimeInputs]

GetSceneMetadata ==
    /\ NotCalled
    /\ \E a \in MetadataInputs :
          Called("get_scene_metadata", a, get_scene_metadata(index, a))

ListAcquisitionDates ==
    /\ NotCalled
    /\ \E a \in MetadataInputs :
          Called("list_acquisition_dates", a, list_acquisition_dates(index, a))

GetDatacubeMetadata ==
    /\ NotCalled
    /\ \E a \in [platform : PlatformInputs, product : Products] :
          Called("get_datacube_metadata", a,
                 get_datacube_metadata(index, a.platform, a.product))

\* a data cube with nothing indexed
InitCube == NoSplit /\ NoFold /\ NoStore /\ NoCall

SpecCube ==
    InitCube /\ [][IndexScene \/ GetDatasetByExtent
                     \/ GetStackedDatasetsByExtent \/ GetSceneMetadata
                     \/ ListAcquisitionDates \/ GetDatacubeMetadata]_vars

\* the values (nir, red, blue) of a pixel: quotients below -1, between -1
\* and 0, 0, between 0 and 2.5, above 2.5, and with a denominator of 0
BandTriples ==
    {<<15, 9, 8>>, <<2, 0, 0>>, <<2, 2, 2>>, <<8, 1, 2>>, <<0, 2, 0>>,
     <<1, 1, 0>>, <<-1, 0, 0>>, <<0, 1, 2>>, <<3, 0, 0>>, <<4, 0, 1>>,
     <<1, 8, 7>>}

\* the datasets of two pixels
BandDatasets ==
    {[nir |-> <<FOfInt[a[1]], FOfInt[b[1]]>>,
      red |-> <<FOfInt[a[2]], FOfInt[b[2]]>>,
      blue |-> <<FOfInt[a[3]], FOfInt[b[3]]>>] :
        a \in BandTriples, b \in BandTriples}

\* EVI or EVI2 about to be called
InitIndex ==
    /\ NoSplit /\ NoFold /\ NoStore
    /\ called \in {"EVI", "EVI2"}
    /\ arguments \in [ds : BandDatasets, normalize : BOOLEAN]
    /\ returned = None
    /\ index = {}
    /\ log = <<>>

\* evi = EVI(ds, normalize=normalize)
EVICall ==
    /\ called = "EVI"
    /\ returned = None
    /\ returned' = Return(EVI(arguments.ds, TwoAndHalf, FOfInt[6],
                              SevenAndHalf, FOfInt[1], arguments.normalize))
    /\ UNCHANGED <<called, arguments, index, log>>
    /\ UNCHANGED notCall

\* evi = EVI2(ds, normalize=normalize)
EVI2Call ==
    /\ called = "EVI2"
    /\ returned = None
    /\ returned' = Return(EVI2(arguments.ds, TwoAndHalf, TwoPointFour,
                               FOfInt[1], arguments.normalize))
    /\ UNCHANGED <<called, arguments, index, log>>
    /\ UNCHANGED notCall

SpecIndex == InitIndex /\ [][EVICall \/ EVI2Call]_vars

\* the baseline holds up to MaxBaseline times
MaxBaseline == 2

\* what a pixel of the baseline holds at one time: nir, red and the clear
\* mask
BaselineEntries ==
    {<<3, 1, TRUE>>, <<1, 3, TRUE>>, <<0, 0, TRUE>>, <<1, -1, TRUE>>,
     <<NoData, 1, TRUE>>, <<1, 1, TRUE>>, <<3, 1, FALSE>>}

\* what a pixel of the scene holds: nir, red and the class that
\* wofs_classify gives it (0 not water, 1 water, no_data not clear)
SceneEntries ==
    {<<3, 1, 0>>, <<1, 3, 0>>, <<0, 0, 0>>, <<1, NoData, 0>>, <<3, 1, 1>>,
     <<1, 1, 0>>, <<3, 1, NoData>>}

\* which of the clear masks are given
MasksGiven == BOOLEAN \X BOOLEAN

\* the arguments of compute_ndvi_anomaly for a baseline of the entries b
\* over time and a scene of the entry e, datasets of one pixel
AnomalyArguments(b, e, given) ==
    [baseline_data |-> [nir |-> [t \in DOMAIN b |-> <<FOfInt[b[t][1]]>>],
                        red |-> [t \in DOMAIN b |-> <<FOfInt[b[t][2]]>>]],
     scene_data |-> [nir |-> <<FOfInt[e[1]]>>, red |-> <<FOfInt[e[2]]>>],
     baseline_clear_mask |->
         IF given[1] THEN Some([t \in DOMAIN b |-> <<b[t][3]>>]) ELSE None,
     selected_scene_clear_mask |->
         IF given[2] THEN Some(<<e[3] # NoData>>) ELSE None,
     no_data |-> NoData,
     water_class |-> <<e[3]>>]

\* compute_ndvi_anomaly about to be called
InitAnomaly ==
    /\ NoSplit /\ NoFold /\ NoStore
    /\ called = "compute_ndvi_anomaly"
    /\ \E b \in UNION {[1..n -> BaselineEntries] : n \in 1..MaxBaseline} :
       \E e \in SceneEntries : \E given \in MasksGiven :
          arguments = AnomalyArguments(b, e, given)
    /\ returned = None
    /\ index = {}
    /\ log = <<>>

\* compute_ndvi_anomaly(baseline_data, scene_data, baseline_clear_mask,
\* selected_scene_clear_mask, no_data)
AnomalyCall ==
    /\ called = "compute_ndvi_anomaly"
    /\ returned = None
    /\ LET call == compute_ndvi_anomaly(arguments.baseline_data,
                       arguments.scene_data, arguments.baseline_clear_mask,
                       arguments.selected_scene_clear_mask,
                       arguments.no_data, arguments.water_class)
       IN /\ returned' = call.returned
          /\ log' = call.reads
    /\ UNCHANGED <<called, arguments, index>>
    /\ UNCHANGED notCall

SpecAnomaly == InitAnomaly /\ [][AnomalyCall]_vars

SpecStore == InitStore /\ [][ReducerCall \/ ChangeResult]_vars

SpecSplitGeo == InitSplitGeo /\ [][SplitTask]_vars

SpecSplitTime == InitSplitTime /\ [][SplitTask]_vars

SpecFill == InitFold /\ [][FillStep]_vars

SpecMax == InitFold /\ [][MaxStep]_vars

SpecMin == InitFold /\ [][MinStep]_vars

SpecAdd == InitFold /\ [][AddStep]_vars

SpecSeries == InitFold /\ [][SeriesStep]_vars

\* ------------------------------------------------------------------------
\* Properties of split_task
\* ------------------------------------------------------------------------

Returned == pc = "done" /\ result.raised = "no"

SquareArea == (longitude[2] - longitude[1]) * (latitude[2] - latitude[1])

\* split_task takes the branch that splits geographically
GeoSplit ==
    /\ latitude # None /\ longitude # None /\ geo_chunk_size # None
    /\ SquareArea > geo_chunk_size[1]

\* C1: with latitude, longitude and a geo_chunk_size below the square area,
\* split_task returns ceil(square_area / geo_chunk_size) lat ranges and as
\* many lon ranges, every lon range the full longitude tuple, the lat ranges
\* ascending, the first starting at latitude[0], the last ending at
\* latitude[1].
C1_GeoRangesCoverExtent ==
    (pc = "done" /\ GeoSplit) =>
        /\ result.raised = "no"
        /\ Len(result.lat_ranges) = CeilDiv(SquareArea, geo_chunk_size[1])
        /\ Len(result.lon_ranges) = Len(result.lat_ranges)
        /\ \A k \in 1..Len(result.lon_ranges) : result.lon_ranges[k] = longitude
        /\ \A k \in 1..(Len(result.lat_ranges) - 1) :
              FCmp[result.lat_ranges[k][1], result.lat_ranges[k + 1][1]] < 0
        /\ result.lat_ranges[1][1] = FOfInt[latitude[1]]
        /\ result.lat_ranges[Len(result.lat_ranges)][2] = FOfInt[latitude[2]]

\* C2: called with latitude = None or longitude = None, split_task returns
\* lat_ranges = [None], lon_ranges = [None] and the time ranges.
C2_NoneBoundsReturnNoneRanges ==
    (pc = "done" /\ (latitude = None \/ longitude = None)) =>
        /\ result.raised = "no"
        /\ result.lat_ranges = <<None>>
        /\ result.lon_ranges = <<None>>
        /\ result.time_ranges
             = TimeRanges(acquisitions, time_chunks, reverse_time).time_ranges

\* C3: for a non-empty acquisitions list and 1 <= time_chunks <=
\* len(acquisitions), split_task returns exactly time_chunks time ranges.
C3_TimeChunksIsNumberOfRanges ==
    (/\ pc = "done"
     /\ time_chunks # None
     /\ 1 <= time_chunks[1]
     /\ time_chunks[1] <= Len(acquisitions)) =>
        /\ result.raised = "no"
        /\ Len(result.time_ranges) = time_chunks[1]

\* the concatenation of a list of lists
Concat[ss \in Seq(Seq(Int))] ==
    IF ss = <<>> THEN <<>> ELSE Head(ss) \o Concat[Tail(ss)]

Count(l, v) == Cardinality({i \in 1..Len(l) : l[i] = v})

\* C4: the returned time_ranges are consecutive chunks of the acquisitions
\* sorted ascending (descending with reverse_time): their concatenation has
\* every acquisition as often as the input has it and is in order; with
\* time_chunks given every chunk is non-empty, all but the last hold
\* ceil(len(acquisitions) / time_chunks) entries and the last at most that
\* many; with time_chunks None there is one chunk.  A call with bounds,
\* and time_chunks None or at least 1 with acquisitions to split, returns.
C4_TimeRangesPartitionAcquisitions ==
    /\ (/\ pc = "done" /\ latitude # None /\ longitude # None
        /\ (time_chunks = None
            \/ (time_chunks[1] >= 1 /\ acquisitions # <<>>)))
       => result.raised = "no"
    /\ Returned =>
        LET all == Concat[result.time_ranges]
            n == Len(result.time_ranges)
        IN /\ Len(all) = Len(acquisitions)
           /\ \A v \in 1..MaxDate : Count(all, v) = Count(acquisitions, v)
           /\ \A i \in 1..(Len(all) - 1) :
                 IF reverse_time THEN all[i] >= all[i + 1]
                 ELSE all[i] <= all[i + 1]
           /\ time_chunks = None => n = 1
           /\ time_chunks # None =>
                 /\ \A k \in 1..n : result.time_ranges[k] # <<>>
                 /\ \A k \in 1..(n - 1) :
                       Len(result.time_ranges[k])
                         = CeilDiv(Len(acquisitions), time_chunks[1])
                 /\ n >= 1 => Len(result.time_ranges[n])
                                <= CeilDiv(Len(acquisitions), time_chunks[1])

\* C4's case: a reversed split into several chunks, the last one short,
\* of a list given out of order with a repeated date
C4_Witness ==
    /\ Returned /\ reverse_time /\ time_chunks # None
    /\ Len(result.time_ranges) >= 2
    /\ Len(result.time_ranges[Len(result.time_ranges)])
         < Len(result.time_ranges[1])
    /\ \E i \in 1..(Len(acquisitions) - 1) : acquisitions[i] < acquisitions[i + 1]
    /\ \E i, j \in 1..Len(acquisitions) : i # j /\ acquisitions[i] = acquisitions[j]

\* exact (unrounded) sum and integer multiple of floats
XAdd[x \in Floats, y \in Floats] ==
    IF x.neg = y.neg THEN FMake[x.neg, BigAdd[x.mag, y.mag]]
    ELSE IF BigCmp[x.mag, y.mag] >= 0
         THEN FMake[x.neg, BigSub[x.mag, y.mag]]
         ELSE FMake[y.neg, BigSub[y.mag, x.mag]]

XMulInt[k \in Int, x \in Floats] ==
    FMake[(k < 0) # x.neg, BigMulSmall[x.mag, IF k < 0 THEN -k ELSE k]]

\* the exact area (upper_lat - lower_lat) * (longitude[1] - longitude[0])
\* of the k-th returned chunk
ChunkArea(k) ==
    XMulInt[longitude[2] - longitude[1],
            XAdd[result.lat_ranges[k][2], FNeg(result.lat_ranges[k][1])]]

\* C5 as stated: whenever split_task splits geographically (resolution >= 0)
\* the area of every returned chunk is at most geo_chunk_size.
C5_ChunkAreaAtMostGeoChunkSize ==
    (pc = "done" /\ GeoSplit /\ ~resolution.neg) =>
        /\ result.raised = "no"
        /\ \A k \in 1..Len(result.lat_ranges) :
              FCmp[ChunkArea(k), FOfInt[geo_chunk_size[1]]] <= 0

\* x * 2^-n, exact for an integer-valued x
Scaled(x, n) == Float(x.neg, BigShr[x.mag, n])

\* what rounding may add to a chunk's area: geo_chunk_size * 2^-50 from the
\* chunk count, (longitude[1] - longitude[0]) * 2^-42 from the chunk bounds
\* (latitudes of magnitude below 128)
AreaSlack ==
    XAdd[Scaled(FOfInt[geo_chunk_size[1]], 50),
         Scaled(FOfInt[longitude[2] - longitude[1]], 42)]

\* C5, amended: the area of every returned chunk is at most geo_chunk_size
\* plus the rounding slack.
C5_ChunkAreaWithinRounding ==
    (pc = "done" /\ GeoSplit /\ ~resolution.neg) =>
        /\ result.raised = "no"
        /\ \A k \in 1..Len(result.lat_ranges) :
              FCmp[ChunkArea(k), XAdd[FOfInt[geo_chunk_size[1]], AreaSlack]] <= 0

\* C5's case: a geographic split with the default resolution in which one
\* chunk is larger than geo_chunk_size (by rounding) and another smaller
C5_Witness ==
    /\ pc = "done" /\ GeoSplit /\ resolution = DefaultResolution
    /\ \E k \in 1..Len(result.lat_ranges) :
          FCmp[ChunkArea(k), FOfInt[geo_chunk_size[1]]] > 0
    /\ \E k \in 1..Len(result.lat_ranges) :
          FCmp[ChunkArea(k), FOfInt[geo_chunk_size[1]]] < 0

\* ------------------------------------------------------------------------
\* Properties of the reducers
\* ------------------------------------------------------------------------

\* the first argument of the last reducer call
LastSlice == slices[Len(slices)]

\* a reducer has been called with an intermediate dataset
Combined == slices # <<>> /\ dataset_intermediate # None

\* C6: fill_nodata(dataset, dataset_intermediate) with a non-None
\* intermediate returns the intermediate's data variables, every pixel
\* holding the intermediate's value when that is not -9999 and dataset's
\* value at the same pixel when it is.
C6_FillNodataKeepsIntermediate ==
    Combined =>
        /\ data_vars(dataset_out) = data_vars(dataset_intermediate)
        /\ \A key \in VarNames : \A p \in Pixels :
              Var(dataset_out, key)[p]
                = IF Var(dataset_intermediate, key)[p] # NoData
                  THEN Var(dataset_intermediate, key)[p]
                  ELSE Var(LastSlice, key)[p]

\* C6's case: one call fills a nodata pixel of the intermediate and keeps
\* a valid pixel for which dataset holds another valid value
C6_Witness ==
    /\ Combined
    /\ \E key \in VarNames : \E p \in Pixels :
          /\ Var(dataset_intermediate, key)[p] = NoData
          /\ Var(LastSlice, key)[p] # NoData
          /\ Var(dataset_out, key)[p] = Var(LastSlice, key)[p]
    /\ \E key \in VarNames : \E p \in Pixels :
          /\ Var(dataset_intermediate, key)[p] # NoData
          /\ Var(LastSlice, key)[p] # NoData
          /\ Var(LastSlice, key)[p] # Var(dataset_intermediate, key)[p]
          /\ Var(dataset_out, key)[p] = Var(dataset_intermediate, key)[p]

\* the slices, in order, whose pixel p of variable key is not nodata
ValidSlices(key, p) ==
    {k \in 1..Len(slices) : Var(slices[k], key)[p] # NoData}

\* the value of the first slice with a value at the pixel, else nodata
FirstValid(key, p) ==
    IF ValidSlices(key, p) = {} THEN NoData
    ELSE Var(slices[CHOOSE k \in ValidSlices(key, p) :
                       \A j \in ValidSlices(key, p) : k <= j], key)[p]

\* C7: in a fold of fill_nodata, after every step each pixel holds the
\* value of the first slice that has a value other than -9999 there (or
\* -9999 if none has), and a pixel holding a value other than -9999 is
\* never changed by a later step.
C7_FillFoldKeepsFirstValid ==
    /\ [](slices # <<>> =>
            \A key \in VarNames : \A p \in Pixels :
                Var(dataset_out, key)[p] = FirstValid(key, p))
    /\ [][slices # <<>> =>
            \A key \in VarNames : \A p \in Pixels :
                Var(dataset_out, key)[p] # NoData =>
                    Var(dataset_out', key)[p] = Var(dataset_out, key)[p]]_vars

\* C7's case: a fold in which a pixel without a value in the first slice
\* was filled by a later one, and a pixel kept its value against a later
\* slice holding another
C7_Witness ==
    /\ Len(slices) = MaxSlices
    /\ \E key \in VarNames : \E p \in Pixels :
          /\ Var(slices[1], key)[p] = NoData
          /\ Var(dataset_out, key)[p] # NoData
    /\ \E key \in VarNames : \E p \in Pixels :
          /\ Var(slices[1], key)[p] # NoData
          /\ Var(slices[Len(slices)], key)[p] # NoData
          /\ Var(slices[Len(slices)], key)[p] # Var(slices[1], key)[p]
          /\ Var(dataset_out, key)[p] = Var(slices[1], key)[p]

\* the fold of max_value over the slices ss, from the result acc
MaxFold[ss \in Seq(Seq(DataVars)), acc \in Seq(DataVars)] ==
    IF ss = <<>> THEN acc
    ELSE MaxFold[Tail(ss), max_value(Head(ss), acc)]

\* the orderings of n slices
Orderings(n) ==
    {f \in [1..n -> 1..n] : \A i, j \in 1..n : f[i] = f[j] => i = j}

\* C8: folding max_value over the slices from None yields at every pixel
\* the maximum of the slices' ndvi values there, and every ordering of the
\* slices yields the same ndvi.
C8_MaxFoldNdviIsMaximum ==
    slices # <<>> =>
        /\ \A p \in Pixels :
              /\ \E k \in 1..Len(slices) :
                    Var(dataset_out, "ndvi")[p] = Var(slices[k], "ndvi")[p]
              /\ \A k \in 1..Len(slices) :
                    Var(dataset_out, "ndvi")[p] >= Var(slices[k], "ndvi")[p]
        /\ \A ds \in {MaxFold[[i \in 1..Len(slices) |-> slices[f[i]]], None] :
                        f \in Orderings(Len(slices))} :
              Var(ds, "ndvi") = Var(dataset_out, "ndvi")

\* C8's case: a fold in which the later slice raised the ndvi of one pixel
\* and left the other, where the first slice has the larger ndvi
C8_Witness ==
    /\ Len(slices) = MaxSlices
    /\ \E p \in Pixels :
          /\ Var(slices[1], "ndvi")[p] < Var(slices[Len(slices)], "ndvi")[p]
          /\ Var(dataset_out, "ndvi")[p] = Var(slices[Len(slices)], "ndvi")[p]
    /\ \E p \in Pixels :
          /\ Var(slices[1], "ndvi")[p] > Var(slices[Len(slices)], "ndvi")[p]
          /\ Var(dataset_out, "ndvi")[p] = Var(slices[1], "ndvi")[p]

\* C9: max_value(dataset, dataset_intermediate) takes every data variable
\* of a pixel from dataset when dataset.ndvi > dataset_intermediate.ndvi
\* there and from dataset_intermediate otherwise, whatever the order of
\* the data variables.
C9_MaxValueSelectsWholePixels ==
    Combined =>
        \A key \in VarNames : \A p \in Pixels :
            Var(dataset_out, key)[p]
              = IF Var(LastSlice, "ndvi")[p]
                     > Var(dataset_intermediate, "ndvi")[p]
                THEN Var(LastSlice, key)[p]
                ELSE Var(dataset_intermediate, key)[p]

\* C10: min_value(dataset, dataset_intermediate) takes every data variable
\* of a pixel from dataset when dataset.ndvi < dataset_intermediate.ndvi
\* there and from dataset_intermediate otherwise, whatever the order of
\* the data variables; the ndvi is the pixelwise minimum of the two.
C10_MinValueSelectsWholePixels ==
    Combined =>
        \A p \in Pixels :
            /\ \A key \in VarNames :
                  Var(dataset_out, key)[p]
                    = IF Var(LastSlice, "ndvi")[p]
                           < Var(dataset_intermediate, "ndvi")[p]
                      THEN Var(LastSlice, key)[p]
                      ELSE Var(dataset_intermediate, key)[p]
            /\ Var(dataset_out, "ndvi")[p] <= Var(LastSlice, "ndvi")[p]
            /\ Var(dataset_out, "ndvi")[p]
                 <= Var(dataset_intermediate, "ndvi")[p]

\* ------------------------------------------------------------------------
\* Properties of addition
\* ------------------------------------------------------------------------

\* the fold of addition over the chunk results ss, from the result acc
AddFold[ss \in Seq(TotalsDatasets), acc \in {None} \cup TotalsDatasets] ==
    IF ss = <<>> THEN acc
    ELSE AddFold[Tail(ss), addition(Head(ss), acc)]

\* the results of folding addition over the slices in every ordering
AddFoldResults ==
    {AddFold[[i \in 1..Len(slices) |-> slices[f[i]]], None] :
        f \in Orderings(Len(slices))}

\* one call of addition returns the pixelwise sums and their quotient, 0
\* where both sums are 0
AdditionSums ==
    Combined =>
        \A p \in Pixels :
            /\ dataset_out.total_data[p]
                 = FAdd[dataset_intermediate.total_data[p],
                        LastSlice.total_data[p]]
            /\ dataset_out.total_clean[p]
                 = FAdd[dataset_intermediate.total_clean[p],
                        LastSlice.total_clean[p]]
            /\ dataset_out.normalized_data[p]
                 = IF /\ dataset_out.total_data[p] = FZero
                      /\ dataset_out.total_clean[p] = FZero
                   THEN FZero
                   ELSE NpDiv[dataset_out.total_data[p],
                              dataset_out.total_clean[p]]

\* C11 as stated: addition returns the pixelwise sums of total_data and
\* total_clean and normalized_data as their quotient, 0 where both sums are
\* 0; folding addition over the chunk results gives the same totals for
\* every ordering of the chunks.
C11_AdditionOrderIndependent ==
    /\ AdditionSums
    /\ slices # <<>> =>
          \A ds \in AddFoldResults :
              /\ ds.total_data = dataset_out.total_data
              /\ ds.total_clean = dataset_out.total_clean

\* the exact sum of a list of floats
XSum[s \in Seq(Floats)] ==
    IF s = <<>> THEN FZero ELSE XAdd[Head(s), XSum[Tail(s)]]

\* x is a whole number
IsWhole(x) == ~MagHasFraction(x.mag)

\* every chunk's total_data at pixel p is a whole number
WholeTotals(p) == \A k \in 1..Len(slices) : IsWhole(slices[k].total_data[p])

\* C11, amended: addition returns the pixelwise sums and their quotient, 0
\* where both sums are 0; folding addition over the chunk results gives
\* total_clean, and total_data at every pixel where the chunks' total_data
\* are whole numbers, equal to the exact sums over the chunks, whatever
\* their order.
C11_AdditionExactOnWholeTotals ==
    /\ AdditionSums
    /\ slices # <<>> =>
          \A p \in Pixels :
              /\ dataset_out.total_clean[p]
                   = XSum[[k \in 1..Len(slices) |-> slices[k].total_clean[p]]]
              /\ WholeTotals(p) =>
                    dataset_out.total_data[p]
                      = XSum[[k \in 1..Len(slices) |-> slices[k].total_data[p]]]

\* C11's case: three different chunk results added up, with a pixel of
\* whole totals whose sums are both 0 and normalized_data 0 there, and a
\* pixel holding fractions
C11_Witness ==
    /\ Len(slices) = MaxChunks
    /\ \A i, j \in 1..Len(slices) : i # j => slices[i] # slices[j]
    /\ \E p \in Pixels :
          /\ WholeTotals(p)
          /\ \E k \in 1..Len(slices) : slices[k].total_data[p] # FZero
          /\ dataset_out.total_data[p] = FZero
          /\ dataset_out.total_clean[p] = FZero
          /\ dataset_out.normalized_data[p] = FZero
    /\ \E p \in Pixels : ~WholeTotals(p)

\* ------------------------------------------------------------------------
\* Properties of the reducers on stored datasets
\* ------------------------------------------------------------------------

\* the arrays of a stored dataset
ArraysOf(ref) == {ref[k].arr : k \in 1..Len(ref)}

\* C12: a call of fill_nodata, max_value, min_value or addition leaves both
\* argument datasets as they were passed, the returned dataset shares no
\* array with either argument (with dataset_intermediate None it is a copy
\* equal to dataset), and changing the result afterwards changes no
\* argument.
C12_ReducersAreStateless ==
    stored # None =>
        /\ Deref(store, stored.dataset) = passed.dataset
        /\ stored.dataset_intermediate # None =>
              Deref(store, stored.dataset_intermediate)
                = passed.dataset_intermediate
        /\ stored.dataset_out # None =>
              /\ ArraysOf(stored.dataset_out) \cap ArraysOf(stored.dataset) = {}
              /\ stored.dataset_intermediate # None =>
                    ArraysOf(stored.dataset_out)
                        \cap ArraysOf(stored.dataset_intermediate) = {}
              /\ (stored.dataset_intermediate = None /\ changes = 0) =>
                    Deref(store, stored.dataset_out) = passed.dataset

\* C12's case: a call that returned a dataset differing from its
\* intermediate, whose result was changed afterwards
C12_Witness ==
    /\ stored # None /\ stored.dataset_out # None
    /\ stored.dataset_intermediate # None
    /\ changes = MaxChanges
    /\ Deref(store, stored.dataset_out) # passed.dataset_intermediate
    /\ Deref(store, stored.dataset_out)
         # Reduced(reducer, passed.dataset, passed.dataset_intermediate)

\* ------------------------------------------------------------------------
\* Properties of the time series analysis
\* ------------------------------------------------------------------------

\* the values over time of the dataset whose consecutive chunks are list
RECURSIVE WholeData(_)
WholeData(list) ==
    IF list = <<>> THEN <<>>
    ELSE list[1][1].values \o WholeData(Tail(list))

\* the results of perform_timeseries_analysis on the whole dataset
OneShot == {perform_timeseries_analysis(Series(WholeData(slices)), NoData)}

\* the count of clean values at pixel p is positive
HasClean(ds, p) == FCmp[ds.total_clean[p], FZero] > 0

\* C13 as stated: after perform_timeseries_analysis_iterative was called on
\* each consecutive chunk of a dataset in turn, total_data and total_clean
\* equal those of perform_timeseries_analysis on the whole dataset, and so
\* does normalized_data at every pixel with total_clean > 0.
C13_IterativeEqualsOneShot ==
    slices # <<>> =>
        \A whole \in OneShot :
            /\ dataset_out.total_data = whole.total_data
            /\ dataset_out.total_clean = whole.total_clean
            /\ \A p \in Pixels :
                  HasClean(whole, p) =>
                      dataset_out.normalized_data[p] = whole.normalized_data[p]

\* every value over time at pixel p is a whole number
WholeValues(p) ==
    \A t \in 1..Len(WholeData(slices)) : IsWhole(WholeData(slices)[t][p])

\* C13, amended: after perform_timeseries_analysis_iterative was called on
\* each consecutive chunk of a dataset in turn, total_clean equals that of
\* perform_timeseries_analysis on the whole dataset at every pixel, and at
\* every pixel whose values are whole numbers so do total_data and, where
\* total_clean > 0, normalized_data.
C13_IterativeEqualsOneShotOnWholeValues ==
    slices # <<>> =>
        \A whole \in OneShot :
            /\ dataset_out.total_clean = whole.total_clean
            /\ \A p \in Pixels :
                  WholeValues(p) =>
                      /\ dataset_out.total_data[p] = whole.total_data[p]
                      /\ HasClean(whole, p) =>
                            dataset_out.normalized_data[p]
                              = whole.normalized_data[p]

\* C13's case: a dataset of MaxTimes time slices aggregated in two or more
\* chunks, one of them of several slices, with whole values at a pixel that
\* holds no_data once and clean data twice
C13_Witness ==
    /\ Times(slices) = MaxTimes
    /\ Len(slices) >= 2
    /\ \E k \in 1..Len(slices) : Len(slices[k][1].values) >= 2
    /\ \E p \in Pixels :
          /\ WholeValues(p)
          /\ \E t \in 1..MaxTimes :
                WholeData(slices)[t][p] = FOfInt[NoData]
          /\ FCmp[dataset_out.total_clean[p], FOfInt[2]] >= 0
          /\ dataset_out.total_data[p] # dataset_intermediate.total_data[p]

\* ------------------------------------------------------------------------
\* Properties of create_cfmask_clean_mask
\* ------------------------------------------------------------------------

\* the mask returned has the shape of cfmask, and a pixel is True exactly
\* when its cfmask value is none of 2, 3, 4, 255 and no_data
CleanMaskOfValues ==
    /\ Shape(returned.value) = Shape(arguments.cfmask)
    /\ \A r \in 1..Len(arguments.cfmask) :
          /\ Len(returned.value[r]) = Len(arguments.cfmask[r])
          /\ \A c \in 1..Len(arguments.cfmask[r]) :
                /\ returned.value[r][c] \in BOOLEAN
                /\ returned.value[r][c]
                     <=> arguments.cfmask[r][c]
                            \notin {2, 3, 4, 255, arguments.no_data}

\* every pixel of cfmask value 0 or 1 is True in the mask returned
ClearAndWaterKept ==
    \A r \in 1..Len(arguments.cfmask) :
        \A c \in 1..Len(arguments.cfmask[r]) :
            arguments.cfmask[r][c] \in {0, 1} => returned.value[r][c]

\* C14 as stated: create_cfmask_clean_mask returns a boolean array of the
\* shape of cfmask in which a pixel is True exactly when its value is none
\* of 2, 3, 4, 255 and no_data, and the values 0 and 1 are always True.
C14_CleanMaskKeepsClearAndWater ==
    (called = "create_cfmask_clean_mask" /\ returned # None) =>
        /\ CleanMaskOfValues
        /\ ClearAndWaterKept

\* C14, amended: create_cfmask_clean_mask returns a boolean array of the
\* shape of cfmask in which a pixel is True exactly when its value is none
\* of 2, 3, 4, 255 and no_data; the values 0 and 1 are True when no_data is
\* neither 0 nor 1.
C14_CleanMaskOfValues ==
    (called = "create_cfmask_clean_mask" /\ returned # None) =>
        /\ CleanMaskOfValues
        /\ arguments.no_data \notin {0, 1} => ClearAndWaterKept

\* C14's case: a mask returned for an array of two rows and two columns
\* holding clear, water, a masked value and the no_data passed, which is
\* not the default
C14_Witness ==
    /\ called = "create_cfmask_clean_mask" /\ returned # None
    /\ Shape(arguments.cfmask) = <<2, 2>>
    /\ arguments.no_data \notin {0, 1, NoData}
    /\ {0, 1, 4, arguments.no_data}
         \subseteq {arguments.cfmask[r][c] : r \in 1..2, c \in 1..2}
    /\ \E r \in 1..2, c \in 1..2 : returned.value[r][c]
    /\ \E r \in 1..2, c \in 1..2 : ~returned.value[r][c]

\* ------------------------------------------------------------------------
\* Properties of DataAccessApi
\* ------------------------------------------------------------------------

\* the query of the one call of dc.load holds the argument key exactly
\* when it was given, with the value given
InQueryWhenGiven(key) ==
    /\ key \in DOMAIN log[1].query <=> arguments[key] # None
    /\ key \in DOMAIN log[1].query => log[1].query[key] = arguments[key][1]

\* C15: get_dataset_by_extent calls dc.load once, with a query that holds
\* each of product_type, platform, time, crs, longitude and latitude
\* exactly when that argument is not None, longitude and latitude also
\* when the other of the two is None.
C15_QueryHoldsEveryGivenParameter ==
    called = "get_dataset_by_extent" =>
        /\ Len(log) = 1
        /\ \A key \in {"product_type", "platform", "time", "crs",
                       "longitude", "latitude"} : InQueryWhenGiven(key)

\* C16: get_stacked_datasets_by_extent called with platforms None and a
\* non-empty list of products raises nothing: it calls dc.load once for
\* each product, with no platform in the query, and returns the stacked
\* data.
C16_PlatformsIsOptional ==
    (/\ called = "get_stacked_datasets_by_extent"
     /\ arguments.platforms = None
     /\ arguments.products # <<>>) =>
        /\ "raised" \notin DOMAIN returned
        /\ Len(log) = Len(arguments.products)
        /\ \A i \in 1..Len(log) :
              /\ log[i].product = arguments.products[i]
              /\ "platform" \notin DOMAIN log[i].query

\* the query of the call matched no data
NoDataMatched == Len(log) = 1 /\ Matches(index, log[1]) = {}

\* C17: when the query matches no data get_scene_metadata and
\* get_datacube_metadata return the zero descriptor and
\* list_acquisition_dates returns the empty list, none raises; whatever the
\* data cube holds get_datacube_metadata(platform, product) returns what
\* get_scene_metadata(platform, product) returns.
C17_NoDataGivesZeroDescriptor ==
    /\ (called \in {"get_scene_metadata", "get_datacube_metadata"}
          /\ NoDataMatched) =>
          /\ returned = Return(ZeroDescriptor)
          /\ returned.value.lat_extents = <<0, 0>>
          /\ returned.value.lon_extents = <<0, 0>>
          /\ returned.value.time_extents = <<0, 0>>
          /\ returned.value.scene_count = 0
          /\ returned.value.pixel_count = 0
          /\ returned.value.tile_count = 0
          /\ DOMAIN returned.value.storage_units = {}
    /\ (called = "list_acquisition_dates" /\ NoDataMatched) =>
          returned = Return(<<>>)
    /\ called = "get_datacube_metadata" =>
          \A same \in {get_scene_metadata(index,
                           [platform |-> arguments.platform,
                            product |-> arguments.product,
                            longitude |-> None, latitude |-> None,
                            crs |-> None, time |-> None])} :
              /\ returned = same.returned
              /\ log = same.loads

\* C17's case: get_scene_metadata returned for a query that matches none of
\* the scenes the data cube holds, scenes of the product asked for among
\* them
C17_Witness ==
    /\ called = "get_scene_metadata"
    /\ \E scene \in index : scene.product = arguments.product
    /\ NoDataMatched
    /\ "raised" \notin DOMAIN returned

\* the platform given for the product at position i of the call of
\* get_stacked_datasets_by_extent, None when none was given for it
StackedPlatform(i) ==
    IF arguments.platforms = None THEN None
    ELSE IF i > Len(arguments.platforms[1]) THEN None
    ELSE arguments.platforms[1][i]

\* the scenes the data cube holds of the product at position i that the
\* arguments of the call select
StackedData(i) ==
    Matches(index,
        LoadOf(DatasetArguments(arguments.products[i],
            [product_type |-> arguments.product_type,
             platform |-> StackedPlatform(i),
             time |-> arguments.time,
             longitude |-> arguments.longitude,
             latitude |-> arguments.latitude])))

\* the time slices of all the products of the call, each with the index in
\* products of its product
StackedSlices ==
    {entry \in [scene : index, satellite : 0..Len(arguments.products)] :
        /\ entry.satellite < Len(arguments.products)
        /\ entry.scene \in StackedData(entry.satellite + 1)}

\* C23: get_stacked_datasets_by_extent returns None when no product yields
\* data; otherwise it returns exactly the time slices of all the products
\* that yielded data, in ascending order of time, the satellite of each
\* slice the index in products of the product it was loaded from.
C23_StackedHoldsEverySlice ==
    called = "get_stacked_datasets_by_extent" =>
        /\ "value" \in DOMAIN returned
        /\ StackedSlices = {} => returned.value = None
        /\ StackedSlices # {} =>
              /\ returned.value # None
              /\ Len(returned.value.scenes) = Cardinality(StackedSlices)
              /\ {returned.value.scenes[k] :
                     k \in 1..Len(returned.value.scenes)} = StackedSlices
              /\ \A j, k \in 1..Len(returned.value.scenes) :
                    j < k => returned.value.scenes[j].scene.time
                               <= returned.value.scenes[k].scene.time

\* ------------------------------------------------------------------------
\* Properties of EVI and EVI2
\* ------------------------------------------------------------------------

\* the raw index values of the call: the quotients of the pixels
RawIndex ==
    [p \in Pixels |->
        IF called = "EVI"
        THEN EVIQuotient[arguments.ds.nir[p], arguments.ds.red[p],
                         arguments.ds.blue[p], TwoAndHalf, FOfInt[6],
                         SevenAndHalf, FOfInt[1]]
        ELSE EVI2Quotient[arguments.ds.nir[p], arguments.ds.red[p],
                          TwoAndHalf, TwoPointFour, FOfInt[1]]]

IndexReturned == called \in {"EVI", "EVI2"} /\ returned # None

\* x <= y for numpy floats
NpAtMost(x, y) == x = y \/ NpLess(x, y)

\* raw[p] is in (0, 2.5], or in [-1, 0]
RawPositive(raw, p) ==
    NpLess(FZero, raw[p]) /\ NpAtMost(raw[p], TwoAndHalf)
RawNegative(raw, p) ==
    NpAtMost(FOfInt[-1], raw[p]) /\ NpAtMost(raw[p], FZero)

\* at every pixel whose quotient is not nan the value returned is in
\* [-1, 1] with normalize and in [-1, 2.5] without
IndexInRange(raw) ==
    \A p \in Pixels :
        raw[p] # NaN =>
            /\ returned.value[p] \in Floats
            /\ FCmp[FOfInt[-1], returned.value[p]] <= 0
            /\ FCmp[returned.value[p],
                    IF arguments.normalize THEN FOfInt[1] ELSE TwoAndHalf] <= 0

\* the value returned is non-decreasing in the raw index value
IndexMonotone(raw) ==
    \A p, q \in Pixels :
        NpAtMost(raw[p], raw[q]) =>
            NpAtMost(returned.value[p], returned.value[q])

\* C18 as stated: EVI and EVI2 return values in [-1, 1] with normalize and
\* in [-1, 2.5] without, at every pixel whose quotient is defined; with
\* normalize a raw value v in (0, 2.5] becomes v / 2.5 and a raw value in
\* [-1, 0] stays as it is; the result is non-decreasing in the raw value.
C18_IndexScaledByDivision ==
    IndexReturned =>
        \A raw \in {RawIndex} :
            /\ IndexInRange(raw)
            /\ IndexMonotone(raw)
            /\ arguments.normalize =>
                  \A p \in Pixels :
                      /\ RawPositive(raw, p) =>
                            returned.value[p] = FDiv[raw[p], TwoAndHalf]
                      /\ RawNegative(raw, p) => returned.value[p] = raw[p]

\* 2^-52, the distance from 1 to the next float
Epsilon == [neg |-> FALSE, mag |-> BigShl[BigOfNat[1], FracBits - (MantBits - 1)]]

\* the magnitude of x - y
Distance(x, y) == [neg |-> FALSE, mag |-> FSub[x, y].mag]

\* C18, amended: EVI and EVI2 return values in [-1, 1] with normalize and
\* in [-1, 2.5] without, at every pixel whose quotient is defined; with
\* normalize a raw value v in (0, 2.5) becomes the float product of v and
\* the float 1 / 2.5, which is within 2^-52 of v / 2.5, the raw value 2.5
\* becomes 1, and a raw value in [-1, 0] stays as it is; the result is
\* non-decreasing in the raw value.
C18_IndexScaledBySlope ==
    IndexReturned =>
        \A raw \in {RawIndex} :
            /\ IndexInRange(raw)
            /\ IndexMonotone(raw)
            /\ arguments.normalize =>
                  \A p \in Pixels :
                      /\ RawPositive(raw, p) =>
                            /\ returned.value[p]
                                 = IF raw[p] = TwoAndHalf THEN FOfInt[1]
                                   ELSE FMul[FDiv[FOfInt[1], TwoAndHalf],
                                             raw[p]]
                            /\ FCmp[Distance(returned.value[p],
                                             FDiv[raw[p], TwoAndHalf]),
                                    Epsilon] <= 0
                      /\ RawNegative(raw, p) => returned.value[p] = raw[p]

\* C18's case: EVI returned with normalize for a pixel whose quotient is
\* above 2.5 and a pixel whose quotient is between 0 and 2.5 and scaled to
\* another value than its quotient by 2.5
C18_Witness ==
    /\ called = "EVI" /\ returned # None /\ arguments.normalize
    /\ \A raw \in {RawIndex} :
          /\ NpLess(TwoAndHalf, raw[1]) /\ returned.value[1] = FOfInt[1]
          /\ RawPositive(raw, 2)
          /\ returned.value[2] # FDiv[raw[2], TwoAndHalf]
          /\ returned.value[2] # raw[2]

\* ------------------------------------------------------------------------
\* Properties of compute_ndvi_anomaly
\* ------------------------------------------------------------------------

AnomalyReturned == called = "compute_ndvi_anomaly" /\ returned # None

\* C19: with baseline_clear_mask or selected_scene_clear_mask None
\* compute_ndvi_anomaly raises AssertionError, having read neither
\* baseline_data nor scene_data, and returns no dataset.
C19_MasksAreRequired ==
    (/\ AnomalyReturned
     /\ \/ arguments.baseline_clear_mask = None
        \/ arguments.selected_scene_clear_mask = None) =>
        /\ returned = Raise("AssertionError")
        /\ "value" \notin DOMAIN returned
        /\ log = <<>>

\* C19's case: a call with the baseline's clear mask given and the scene's
\* None raised an exception
C19_Witness ==
    /\ AnomalyReturned
    /\ arguments.baseline_clear_mask # None
    /\ arguments.selected_scene_clear_mask = None
    /\ "raised" \in DOMAIN returned

\* the variables of the dataset returned
AnomalyVariables ==
    {"scene_ndvi", "baseline_ndvi", "ndvi_difference",
     "ndvi_percentage_change"}

\* C20: in every variable of the dataset compute_ndvi_anomaly returns a
\* pixel holds a finite value, no_data where its value is not defined;
\* where the NDVI of the scene and of the baseline are defined and the
\* baseline's is not 0, ndvi_difference is scene_ndvi - baseline_ndvi and
\* ndvi_percentage_change is ndvi_difference / baseline_ndvi.
C20_NoDataForUndefined ==
    (AnomalyReturned /\ "value" \in DOMAIN returned) =>
        \A p \in DOMAIN returned.value.scene_ndvi :
            /\ \A v \in AnomalyVariables : NpIsFinite(returned.value[v][p])
            /\ (/\ returned.value.scene_ndvi[p] # FOfInt[NoData]
                /\ NpIsFinite(returned.value.baseline_ndvi[p])
                /\ returned.value.baseline_ndvi[p] # FOfInt[NoData]
                /\ returned.value.baseline_ndvi[p] # FZero) =>
                  /\ returned.value.ndvi_difference[p]
                       = FSub[returned.value.scene_ndvi[p],
                              returned.value.baseline_ndvi[p]]
                  /\ returned.value.ndvi_percentage_change[p]
                       = FDiv[returned.value.ndvi_difference[p],
                              returned.value.baseline_ndvi[p]]

\* ------------------------------------------------------------------------
\* Properties of generate_time_ranges
\* ------------------------------------------------------------------------

\* the generator of generate_time_ranges finished
RangesFinished ==
    /\ called = "generate_time_ranges"
    /\ returned # None
    /\ returned.value.state = "finished"

\* the list is sorted ascending, descending when reverse is TRUE
InOrder(l, reverse) ==
    \A i \in 1..(Len(l) - 1) :
        IF reverse THEN l[i] >= l[i + 1] ELSE l[i] <= l[i + 1]

StrictlyIncreasing(l) == \A i \in 1..(Len(l) - 1) : l[i] < l[i + 1]

\* the number of list entries that make a group
GroupSize ==
    IF arguments.slices_per_iteration = None
    THEN Len(arguments.acquisition_list)
    ELSE arguments.slices_per_iteration[1]

\* C22: for a list sorted ascending with reverse_time False, or descending
\* with reverse_time True, that the caller leaves as it passed it, and
\* slices_per_iteration None or at least 1, the k-th range yielded holds,
\* as a closed interval, every acquisition of the k-th group of
\* slices_per_iteration consecutive entries (of all entries when it is
\* None), and the generator finishes only when it has yielded the range of
\* every group, so every acquisition lies in a range; with reverse_time
\* False and strictly increasing acquisitions the ranges are pairwise
\* disjoint.
C22_RangesLoseNoAcquisition ==
    (/\ called = "generate_time_ranges"
     /\ changes = 0
     /\ InOrder(arguments.acquisition_list, arguments.reverse_time)) =>
        LET acquisition_list == arguments.acquisition_list
        IN /\ \A j \in 1..Len(acquisition_list) :
                 LET k == ((j - 1) \div GroupSize) + 1
                 IN /\ RangesFinished => k <= Len(log)
                    /\ k <= Len(log) =>
                          /\ log[k][1] <= acquisition_list[j]
                          /\ acquisition_list[j] <= log[k][2]
           /\ (~arguments.reverse_time
                 /\ StrictlyIncreasing(acquisition_list)) =>
                 \A k, l \in 1..Len(log) : k < l => log[k][2] < log[l][1]

\* C22's case: three acquisitions in descending order, two of them less
\* than a second apart, yielded with reverse_time in two ranges by a
\* generator that finished, the list as it was passed
C22_Witness ==
    /\ RangesFinished
    /\ changes = 0
    /\ arguments.reverse_time
    /\ Len(arguments.acquisition_list) = 3
    /\ \A i \in 1..2 : arguments.acquisition_list[i]
                          > arguments.acquisition_list[i + 1]
    /\ arguments.slices_per_iteration = <<2>>
    /\ Len(log) = 2

\* ------------------------------------------------------------------------
\* Properties of xarray_time_series_plot
\* ------------------------------------------------------------------------

\* xarray_time_series_plot returned or raised
PlotReturned == called = "xarray_time_series_plot" /\ returned # None

\* plot_descs names plot types only, poly with its degree
WellFormed(plot_descs) ==
    \A i \in 1..Len(plot_descs) :
        /\ plot_descs[i].plot_type
             \in {"scatter", "line", "gaussian", "poly", "cubic_spline", "box"}
        /\ plot_descs[i].plot_type = "poly" =>
              "degree" \in DOMAIN plot_descs[i].plot_kwargs

\* the plot type cannot take the aggregation type
CannotTake(plot) ==
    \/ /\ plot.plot_type \in {"line", "gaussian", "poly", "cubic_spline"}
       /\ plot.agg_type = "none"
    \/ /\ plot.plot_type = "box"
       /\ plot.agg_type \in {"mean", "median"}

\* C21: xarray_time_series_plot raises ValueError whenever plot_descs
\* pairs an aggregation type with a plot type that cannot take it (line,
\* gaussian, poly or cubic_spline with none, box with mean or median), for
\* every dataset, also one whose data variable has too few times with a
\* value to be plotted.  Stated for a well-formed plot_descs and a dataset
\* in which a data variable to plot holds a value.
C21_IncompatibleAggregationRaises ==
    (/\ PlotReturned
     /\ WellFormed(arguments.plot_descs)
     /\ TimesNotAllNan(arguments.dataset, arguments.plot_descs) # <<>>
     /\ \E i \in 1..Len(arguments.plot_descs) :
            CannotTake(arguments.plot_descs[i])) =>
        returned = Raise("ValueError")

====
